---- MODULE Spec2Model ----
(***************************************************************************)
(* FeynmanMath: the client-resident persistence layer (authService, kept   *)
(* on localStorage) and the navigation state machine of App.tsx.           *)
(*                                                                         *)
(* Two specifications share the variables:                                 *)
(*   Spec       the application: UI handlers of App.tsx and its            *)
(*              components, each with the React effects it triggers, the   *)
(*              resumption of every awaited call as a step of its own,     *)
(*              and page reload;                                           *)
(*   StoreSpec  the exported authService API driven directly, one call at  *)
(*              a time (bootstrap also with overlapping invocations).      *)
(* Strings of the source that are not ASCII are written in English.        *)
(***************************************************************************)
EXTENDS Integers, Sequences, FiniteSets, TLC

VARIABLES
  dbUsers,           \* localStorage[USERS_KEY]: sequence of User
  dbData,            \* localStorage[DATA_KEY]: sequence of UserData (JSON)
  dbCurrentUser,     \* localStorage[CURRENT_USER_KEY]: User or NullUser
  dbLastSession,     \* localStorage[LAST_SESSION_PREFIX + id]: id -> JSON
  now,               \* next value of Date.now()
  nGen,              \* problems generated so far
  idCounter,         \* ids synthesized by registerBatchUsers so far
  currentUser,       \* App state
  appState,
  currentProblem,
  loading,
  activeMistakes,
  showAchievements,
  previousLoginTime,
  selectedStudent,
  chat,              \* the mounted ChatInterface: messages, isProcessing
  loginForm,         \* Login component: error, loading
  cpForm,            \* ChangePassword component: error, loading
  pendInit,          \* initializeAdmin invocations suspended on hashPassword
  pendLogin,         \* login calls suspended on hashPassword
  pendUpdate,        \* updatePassword calls suspended on hashPassword
  pendReset,         \* resetUserPasswordToUsername calls suspended
  pendBatch,         \* registerBatchUsers calls suspended
  pendGen,           \* generateMathProblem calls awaiting the provider
  pendEval,          \* evaluateSolution calls awaiting the provider
  lastCall,          \* what the authService call that returned in the last
                     \* step returned, NoCall after any other step
  pendRender         \* state of App and ChatInterface set since the last
                     \* render: the names of the state variables, {} when
                     \* no render is scheduled

storeVars == <<dbUsers, dbData, dbCurrentUser, dbLastSession>>
appVars == <<currentUser, appState, currentProblem, loading, activeMistakes,
             showAchievements, previousLoginTime, selectedStudent>>
compVars == <<chat, loginForm, cpForm>>
pendVars == <<pendInit, pendLogin, pendUpdate, pendReset, pendBatch, pendGen,
              pendEval>>
vars == <<dbUsers, dbData, dbCurrentUser, dbLastSession, now, nGen, idCounter,
          currentUser, appState, currentProblem, loading, activeMistakes,
          showAchievements, previousLoginTime, selectedStudent,
          chat, loginForm, cpForm,
          pendInit, pendLogin, pendUpdate, pendReset, pendBatch, pendGen,
          pendEval, lastCall, pendRender>>

----------------------------------------------------------------------------
(* Bounds of the model *)

MaxLogins == 3     \* successful logins (Spec)
MaxApiLogins == 2  \* successful logins (StoreSpec)
MaxGen == 1        \* problems generated
MaxReg == 2        \* ids synthesized by registerBatchUsers (StoreSpec)
MaxImport == 1     \* rows imported through the coach dashboard (Spec)
MaxBatch == 2      \* rows of one import
MaxBoot == 2       \* overlapping initializeAdmin invocations (StoreSpec)
MaxChat == 3       \* messages of one conversation

----------------------------------------------------------------------------
(* types.ts *)

Undefined == -1    \* an absent optional number (lastLogin, loginCount, ...)

NullUser ==
  [id |-> "null", username |-> "", passwordHash |-> "", name |-> "",
   role |-> "none", isFirstLogin |-> FALSE,
   lastLogin |-> Undefined, loginCount |-> Undefined]

NullProblem ==
  [id |-> "null", topic |-> "", content |-> "", timestamp |-> Undefined,
   chatHistory |-> <<>>]

AppStates == {"Login", "ChangePassword", "TopicSelection", "ProblemActive",
              "MistakeNotebook", "CoachDashboard", "CoachAnalytics"}

TOPICS == <<"Limits", "Derivatives", "Integrals", "DiffEq", "LinearAlgebra",
            "AnalyticGeometry", "Series", "RandomChallenge">>

----------------------------------------------------------------------------
(* authService: crypto and data access *)

\* SHA-256 hex digest: one digest per password, never the clear text.
hashPassword(password) == "sha256:" \o password

\* users.findIndex(u => u.username === username), 0 for -1
findIndexByUsername(users, username) ==
  IF \E i \in 1..Len(users) : users[i].username = username
  THEN CHOOSE i \in 1..Len(users) :
         /\ users[i].username = username
         /\ \A j \in 1..(i - 1) : users[j].username # username
  ELSE 0

\* users.findIndex(u => u.id === userId), 0 for -1
findIndexById(users, userId) ==
  IF \E i \in 1..Len(users) : users[i].id = userId
  THEN CHOOSE i \in 1..Len(users) :
         /\ users[i].id = userId
         /\ \A j \in 1..(i - 1) : users[j].id # userId
  ELSE 0

someUsername(users, username) ==
  \E i \in 1..Len(users) : users[i].username = username

\* what an authService call returned: its name, its arguments (a username
\* or a user id, a password), "ok" or the error thrown, the number returned
NoCall == [op |-> "none", a1 |-> "", a2 |-> "", status |-> "", n |-> Undefined]

Call(op, a1, a2, status, n) ==
  [op |-> op, a1 |-> a1, a2 |-> a2, status |-> status, n |-> n]

\* the call op has just returned with this status
isCall(call, op, status) == call.op = op /\ call.status = status

----------------------------------------------------------------------------
(* authService.initializeAdmin *)

\* the test account created as one that must change its password
testUser_mustRotate ==
  [id |-> "student_test_default", username |-> "test",
   passwordHash |-> hashPassword("test"), name |-> "TestStudent",
   role |-> "student", isFirstLogin |-> TRUE,
   lastLogin |-> Undefined, loginCount |-> Undefined]

adminUser ==
  [id |-> "admin_default", username |-> "Coach",
   passwordHash |-> hashPassword("admin123"), name |-> "HeadCoach",
   role |-> "coach", isFirstLogin |-> FALSE,
   lastLogin |-> Undefined, loginCount |-> Undefined]

testUser ==
  [id |-> "student_test_default", username |-> "test",
   passwordHash |-> hashPassword("test"), name |-> "TestStudent",
   role |-> "student", isFirstLogin |-> FALSE,
   lastLogin |-> Undefined, loginCount |-> Undefined]

\* initializeAdmin pushing both accounts without looking for them
initializeAdminUsers_alwaysPush(users) ==
  Append(Append(users, adminUser), testUser)

\* the local array of one invocation after step 1 and step 2
initializeAdminUsers(users) ==
  LET u1 == IF ~someUsername(users, "Coach") THEN Append(users, adminUser)
            ELSE users
  IN IF ~someUsername(u1, "test") THEN Append(u1, testUser) ELSE u1

\* hasChanges: an account was pushed; the invocation has awaited a hash and
\* saves at its end
initializeAdminHasChanges(users) == initializeAdminUsers(users) # users

----------------------------------------------------------------------------
(* authService.login *)

\* the part before the await: "NotFound" is thrown without suspending
loginIndex(users, username) == findIndexByUsername(users, username)

\* loginResume reading previousLogin after the update instead of before it
loginResume_previousLoginAfterUpdate(users, userIndex, password, t) ==
  LET user == users[userIndex]
      updatedUser == [user EXCEPT !.lastLogin = t,
                        !.loginCount =
                          (IF user.loginCount = Undefined THEN 0
                           ELSE user.loginCount) + 1]
  IN IF user.passwordHash # hashPassword(password)
     THEN [status |-> "InvalidCredential", users |-> users,
           user |-> NullUser, previousLogin |-> Undefined]
     ELSE [status |-> "ok",
           users |-> [users EXCEPT ![userIndex] = updatedUser],
           user |-> updatedUser, previousLogin |-> updatedUser.lastLogin]

\* loginResume without the comparison of the digests
loginResume_noDigestCheck(users, userIndex, password, t) ==
  LET user == users[userIndex]
      updatedUser == [user EXCEPT !.lastLogin = t,
                        !.loginCount =
                          (IF user.loginCount = Undefined THEN 0
                           ELSE user.loginCount) + 1]
  IN [status |-> "ok",
      users |-> [users EXCEPT ![userIndex] = updatedUser],
      user |-> updatedUser, previousLogin |-> user.lastLogin]

\* the part after the await, on the array read before it; t is Date.now()
loginResume(users, userIndex, password, t) ==
  LET user == users[userIndex]
      updatedUser == [user EXCEPT !.lastLogin = t,
                        !.loginCount =
                          (IF user.loginCount = Undefined THEN 0
                           ELSE user.loginCount) + 1]
  IN IF user.passwordHash # hashPassword(password)
     THEN [status |-> "InvalidCredential", users |-> users,
           user |-> NullUser, previousLogin |-> Undefined]
     ELSE [status |-> "ok",
           users |-> [users EXCEPT ![userIndex] = updatedUser],
           user |-> updatedUser, previousLogin |-> user.lastLogin]

----------------------------------------------------------------------------
(* authService.updatePassword, resetUserPasswordToUsername *)

\* updatePassword writing the updated user at the end of the roster
updatePasswordResume_movesToEnd(users, index, newPassword) ==
  Append(SubSeq(users, 1, index - 1) \o SubSeq(users, index + 1, Len(users)),
         [users[index] EXCEPT !.passwordHash = hashPassword(newPassword),
                              !.isFirstLogin = FALSE])

updatePasswordResume(users, index, newPassword) ==
  [users EXCEPT ![index].passwordHash = hashPassword(newPassword),
                ![index].isFirstLogin = FALSE]

resetResume(users, index) ==
  [users EXCEPT ![index].passwordHash = hashPassword(users[index].username),
                ![index].isFirstLogin = TRUE]

----------------------------------------------------------------------------
(* authService.registerBatchUsers *)

\* `u_${Date.now()}_${Math.random()...}`: a fresh id per row
newUserId(k) == "u_" \o ToString(k)

RECURSIVE mapNewUsers(_, _)
mapNewUsers(newUsersRaw, k) ==
  IF newUsersRaw = <<>> THEN <<>>
  ELSE <<[id |-> newUserId(k + 1), username |-> Head(newUsersRaw).username,
          passwordHash |-> hashPassword(Head(newUsersRaw).username),
          name |-> Head(newUsersRaw).name,
          role |-> "student", isFirstLogin |-> TRUE,
          lastLogin |-> Undefined, loginCount |-> Undefined]>>
       \o mapNewUsers(Tail(newUsersRaw), k + 1)

\* newUsers.filter(nu => !currentUsers.some(cu => cu.username === nu.username))
uniqueNewUsers(currentUsers, newUsers) ==
  SelectSeq(newUsers, LAMBDA nu : ~someUsername(currentUsers, nu.username))

registerBatchResume(currentUsers, newUsers) ==
  currentUsers \o uniqueNewUsers(currentUsers, newUsers)

getStudents(users) == SelectSeq(users, LAMBDA u : u.role = "student")

----------------------------------------------------------------------------
(* authService: mistake data and session persistence *)

\* a serialization that keeps the problem but not its conversation
stringifyProblem_withoutChatHistory(problem) ==
  [k \in {"id", "topic", "content"}
          \cup (IF problem.timestamp # Undefined THEN {"timestamp"} ELSE {})
     |-> problem[k]]

\* JSON.stringify of a Problem: a key whose value is undefined is left out
stringifyProblem(problem) ==
  [k \in {"id", "topic", "content"}
          \cup (IF problem.timestamp # Undefined THEN {"timestamp"} ELSE {})
          \cup (IF problem.chatHistory # <<>> THEN {"chatHistory"} ELSE {})
     |-> problem[k]]

\* JSON.parse of a stored Problem: a key that is not there reads as undefined
parseProblem(text) ==
  [id |-> text["id"], topic |-> text["topic"], content |-> text["content"],
   timestamp |-> IF "timestamp" \in DOMAIN text THEN text["timestamp"]
                 ELSE Undefined,
   chatHistory |-> IF "chatHistory" \in DOMAIN text THEN text["chatHistory"]
                   ELSE <<>>]

stringifyProblems(problems) ==
  [i \in 1..Len(problems) |-> stringifyProblem(problems[i])]

parseProblems(texts) == [i \in 1..Len(texts) |-> parseProblem(texts[i])]

findIndexByUserId(allData, userId) ==
  IF \E i \in 1..Len(allData) : allData[i].userId = userId
  THEN CHOOSE i \in 1..Len(allData) :
         /\ allData[i].userId = userId
         /\ \A j \in 1..(i - 1) : allData[j].userId # userId
  ELSE 0

getUserMistakes(allData, userId) ==
  IF findIndexByUserId(allData, userId) = 0 THEN <<>>
  ELSE parseProblems(allData[findIndexByUserId(allData, userId)].mistakes)

\* saveUserMistakes pushing a record without looking for the user's record
saveUserMistakes_alwaysPush(allData, userId, mistakes) ==
  Append(allData, [userId |-> userId,
                   mistakes |-> [i \in 1..Len(mistakes) |->
                                   stringifyProblem(mistakes[i])]])

saveUserMistakes(allData, userId, mistakes) ==
  IF findIndexByUserId(allData, userId) > 0
  THEN [allData EXCEPT ![findIndexByUserId(allData, userId)].mistakes =
                          stringifyProblems(mistakes)]
  ELSE Append(allData, [userId |-> userId,
                        mistakes |-> stringifyProblems(mistakes)])

\* saveLastSession that leaves the stored pointer alone for null
saveLastSession_neverRemoves(sessions, userId, problem) ==
  IF problem # NullProblem
  THEN [k \in (DOMAIN sessions) \cup {userId} |->
          IF k = userId THEN stringifyProblem(problem) ELSE sessions[k]]
  ELSE sessions

\* setItem(key, problem), or removeItem(key) for null
saveLastSession(sessions, userId, problem) ==
  IF problem # NullProblem
  THEN [k \in (DOMAIN sessions) \cup {userId} |->
          IF k = userId THEN stringifyProblem(problem) ELSE sessions[k]]
  ELSE [k \in (DOMAIN sessions) \ {userId} |-> sessions[k]]

getLastSession(sessions, userId) ==
  IF userId \in DOMAIN sessions THEN parseProblem(sessions[userId])
  ELSE NullProblem

----------------------------------------------------------------------------
(* authService.logout *)

\* logout that also removes the session pointer of the user it logs out
logout_clearsLastSession(sessionUser, sessions) ==
  [currentUser |-> NullUser,
   sessions |-> saveLastSession(sessions, sessionUser.id, NullProblem)]

\* removeItem(CURRENT_USER_KEY), the session pointers are kept
logout(sessionUser, sessions) ==
  [currentUser |-> NullUser, sessions |-> sessions]

----------------------------------------------------------------------------
(* ChatInterface: component state *)

NoChat == [mounted |-> FALSE, key |-> "", messages |-> <<>>,
           isProcessing |-> FALSE]

welcomeMessage == [sender |-> "model", text |-> "welcome", attachment |-> FALSE]

\* useState initializer of messages
initialMessages(problem) ==
  IF Len(problem.chatHistory) > 0 THEN problem.chatHistory
  ELSE <<welcomeMessage>>

\* the 'giving up' keywords, matched case-insensitively; the texts a student
\* types are "attempt" (no keyword) and "help" / "HELP" (keyword 'Help')
hasKeyword(inputText) == inputText \in {"help", "HELP"}

someId(problems, id) == \E i \in 1..Len(problems) : problems[i].id = id

----------------------------------------------------------------------------
(* App.tsx: state, handlers and effects *)

NoForm == [error |-> "", loading |-> FALSE]

InitialMem ==
  [currentUser |-> NullUser, appState |-> "Login",
   currentProblem |-> NullProblem, loading |-> FALSE,
   activeMistakes |-> <<>>, showAchievements |-> FALSE,
   previousLoginTime |-> Undefined, selectedStudent |-> NullUser]

Mem ==
  [currentUser |-> currentUser, appState |-> appState,
   currentProblem |-> currentProblem, loading |-> loading,
   activeMistakes |-> activeMistakes, showAchievements |-> showAchievements,
   previousLoginTime |-> previousLoginTime,
   selectedStudent |-> selectedStudent]

\* the memory of App, the component states and the storage the effects write
World(m) ==
  [m |-> m, chat |-> chat, loginForm |-> loginForm, cpForm |-> cpForm,
   data |-> dbData, sessions |-> dbLastSession, pendEval |-> pendEval]

isStudent(user) == user # NullUser /\ user.role = "student"

\* handleLoginSuccess without the resumption of the last session
handleLoginSuccess_noResume(m, user, prevLoginTime, allData, sessions) ==
  LET m1 == [m EXCEPT !.currentUser = user,
                      !.previousLoginTime = prevLoginTime]
      m2 == [m1 EXCEPT !.activeMistakes = getUserMistakes(allData, user.id),
                       !.showAchievements =
                         IF prevLoginTime # Undefined THEN TRUE ELSE @]
  IN IF user.isFirstLogin THEN [m1 EXCEPT !.appState = "ChangePassword"]
     ELSE IF user.role = "coach" THEN [m1 EXCEPT !.appState = "CoachDashboard"]
     ELSE [m2 EXCEPT !.appState = "TopicSelection"]

\* handleLoginSuccess showing the overlay whatever prevLoginTime is
handleLoginSuccess_alwaysOverlay(m, user, prevLoginTime, allData, sessions) ==
  LET m1 == [m EXCEPT !.currentUser = user,
                      !.previousLoginTime = prevLoginTime]
      m2 == [m1 EXCEPT !.activeMistakes = getUserMistakes(allData, user.id),
                       !.showAchievements = TRUE]
      lastSession == getLastSession(sessions, user.id)
  IN IF user.isFirstLogin THEN [m1 EXCEPT !.appState = "ChangePassword"]
     ELSE IF user.role = "coach" THEN [m1 EXCEPT !.appState = "CoachDashboard"]
     ELSE IF lastSession # NullProblem
          THEN [m2 EXCEPT !.currentProblem = lastSession,
                          !.appState = "ProblemActive"]
          ELSE [m2 EXCEPT !.appState = "TopicSelection"]

handleLoginSuccess(m, user, prevLoginTime, allData, sessions) ==
  LET m1 == [m EXCEPT !.currentUser = user,
                      !.previousLoginTime = prevLoginTime]
      m2 == [m1 EXCEPT !.activeMistakes = getUserMistakes(allData, user.id),
                       !.showAchievements =
                         IF prevLoginTime # Undefined THEN TRUE ELSE @]
      lastSession == getLastSession(sessions, user.id)
  IN IF user.isFirstLogin THEN [m1 EXCEPT !.appState = "ChangePassword"]
     ELSE IF user.role = "coach" THEN [m1 EXCEPT !.appState = "CoachDashboard"]
     ELSE IF lastSession # NullProblem
          THEN [m2 EXCEPT !.currentProblem = lastSession,
                          !.appState = "ProblemActive"]
          ELSE [m2 EXCEPT !.appState = "TopicSelection"]

handleLogout(m) ==
  [m EXCEPT !.currentUser = NullUser, !.appState = "Login",
            !.activeMistakes = <<>>, !.selectedStudent = NullUser,
            !.currentProblem = NullProblem, !.showAchievements = FALSE]

\* handleChatUpdate(messages): the current problem with the reported messages
chatUpdatedProblem(m, messages) ==
  [m.currentProblem EXCEPT !.chatHistory = messages]

\* handleChatUpdate that leaves the archive alone
handleChatUpdate_currentProblemOnly(m, messages) ==
  IF m.currentProblem = NullProblem THEN m
  ELSE [m EXCEPT !.currentProblem = chatUpdatedProblem(m, messages)]

handleChatUpdate(m, messages) ==
  IF m.currentProblem = NullProblem THEN m
  ELSE LET updatedProblem == chatUpdatedProblem(m, messages)
       IN [m EXCEPT
             !.currentProblem = updatedProblem,
             !.activeMistakes =
               IF someId(m.activeMistakes, updatedProblem.id)
               THEN [i \in 1..Len(m.activeMistakes) |->
                       IF m.activeMistakes[i].id = updatedProblem.id
                       THEN updatedProblem ELSE m.activeMistakes[i]]
               ELSE @]

\* the save-mistakes effect without its check of the role
saveMistakesEffect_anyRole(m, allData) ==
  IF m.currentUser # NullUser /\ m.appState # "Login"
  THEN saveUserMistakes(allData, m.currentUser.id, m.activeMistakes)
  ELSE allData

\* the body of the save-mistakes effect
saveMistakesEffect(m, allData) ==
  IF isStudent(m.currentUser) /\ m.appState # "Login"
  THEN saveUserMistakes(allData, m.currentUser.id, m.activeMistakes)
  ELSE allData

\* the body of the persist-session effect
persistSessionEffect(m, sessions) ==
  IF isStudent(m.currentUser) /\ m.appState = "ProblemActive"
  THEN saveLastSession(sessions, m.currentUser.id, m.currentProblem)
  ELSE sessions

\* <ChatInterface key={currentProblem.id}> is rendered
chatRendered(m) ==
  m.appState = "ProblemActive" /\ m.currentProblem # NullProblem

\* One commit of App after a handler has set state: the render mounts,
\* keeps or unmounts the components; the propagate-messages effect of the
\* chat (it runs on every render of App, onMessagesUpdate being a new
\* function each time) reports the messages; the save-mistakes and
\* persist-session effects write what the last render holds.
Settle(w) ==
  LET m0 == w.m
      kept == /\ chatRendered(m0) /\ w.chat.mounted
              /\ w.chat.key = m0.currentProblem.id
      chat1 == IF ~chatRendered(m0) THEN NoChat
               ELSE IF kept THEN w.chat
               ELSE [mounted |-> TRUE, key |-> m0.currentProblem.id,
                     messages |-> initialMessages(m0.currentProblem),
                     isProcessing |-> FALSE]
      m1 == IF chat1.mounted THEN handleChatUpdate(m0, chat1.messages)
            ELSE m0
  IN [m |-> m1,
      chat |-> chat1,
      loginForm |-> IF m1.appState = "Login" THEN w.loginForm ELSE NoForm,
      cpForm |-> IF m1.appState = "ChangePassword" /\ m1.currentUser # NullUser
                 THEN w.cpForm ELSE NoForm,
      data |-> saveMistakesEffect(m1, w.data),
      sessions |-> persistSessionEffect(m1, w.sessions),
      pendEval |-> IF kept THEN w.pendEval ELSE <<>>]

\* the next state holds what the commit left
Commit(w) ==
  /\ currentUser' = w.m.currentUser
  /\ appState' = w.m.appState
  /\ currentProblem' = w.m.currentProblem
  /\ loading' = w.m.loading
  /\ activeMistakes' = w.m.activeMistakes
  /\ showAchievements' = w.m.showAchievements
  /\ previousLoginTime' = w.m.previousLoginTime
  /\ selectedStudent' = w.m.selectedStudent
  /\ chat' = w.chat
  /\ loginForm' = w.loginForm
  /\ cpForm' = w.cpForm
  /\ dbData' = w.data
  /\ dbLastSession' = w.sessions
  /\ pendEval' = w.pendEval

\* the student layout (header with logo and logout, main pane) is rendered
studentFlowRendered(m) ==
  /\ m.appState \notin {"Login", "CoachDashboard", "CoachAnalytics"}
  /\ ~(m.appState = "ChangePassword" /\ m.currentUser # NullUser)

toggleMistake(m, t) ==
  IF m.currentProblem = NullProblem THEN m
  ELSE IF m.currentUser.role # "student" THEN m
  ELSE IF someId(m.activeMistakes, m.currentProblem.id)
       THEN [m EXCEPT !.activeMistakes =
               SelectSeq(@, LAMBDA x : x.id # m.currentProblem.id)]
       ELSE [m EXCEPT !.activeMistakes =
               <<[m.currentProblem EXCEPT !.timestamp = t]>> \o @]

\* saveCurrentProblem inserting without looking for the id in the archive
saveCurrentProblem_alwaysInsert(m, t) ==
  IF m.currentProblem = NullProblem \/ m.currentUser.role # "student" THEN m
  ELSE [m EXCEPT !.activeMistakes =
          <<[m.currentProblem EXCEPT !.timestamp = t]>> \o @]

saveCurrentProblem(m, t) ==
  IF m.currentProblem = NullProblem \/ m.currentUser.role # "student" THEN m
  ELSE IF ~someId(m.activeMistakes, m.currentProblem.id)
       THEN [m EXCEPT !.activeMistakes =
               <<[m.currentProblem EXCEPT !.timestamp = t]>> \o @]
       ELSE m

\* Math.random() takes the values n / RandomGrain, 0 <= n < RandomGrain
RandomGrain == 14

\* the draw taken over the whole list, the random-choice entry included
selectedTopic_overWholeList(topic, n) ==
  IF topic = "RandomChallenge"
  THEN TOPICS[((n * Len(TOPICS)) \div RandomGrain) + 1]
  ELSE topic

\* handleTopicSelect: TOPICS[Math.floor(Math.random() * (TOPICS.length - 1))]
\* for the random-choice button (the arrays of the source count from 0)
selectedTopic(topic, n) ==
  IF topic = "RandomChallenge"
  THEN TOPICS[((n * (Len(TOPICS) - 1)) \div RandomGrain) + 1]
  ELSE topic

\* generateMathProblem: the problem of the provider's answer, or the
\* degraded problem of its catch branch; t is Date.now()
generateMathProblem(topic, outcome, t) ==
  [id |-> ToString(t), topic |-> topic,
   content |-> IF outcome = "ok" THEN "generated" ELSE "generation-error",
   timestamp |-> Undefined, chatHistory |-> <<>>]

----------------------------------------------------------------------------
(* Inputs *)

\* what is typed into the two fields of Login
Credentials == {<<"Coach", "admin123">>, <<"Coach", "test">>,
                <<"test", "test">>, <<"test", "secret1">>,
                <<"a", "a">>, <<"a", "secret1">>, <<"ghost", "test">>}

\* what is typed into the two fields of ChangePassword
PasswordForms == {<<"abc", "abc">>, <<"secret1", "secret2">>,
                  <<"secret1", "secret1">>}

\* rows of an imported sheet
Rows == {[name |-> "A", username |-> "a"], [name |-> "T", username |-> "test"]}
Batches == UNION {[1..n -> Rows] : n \in 1..MaxBatch}

\* topic buttons pressed and values of Math.random(), n standing for
\* n / RandomGrain; the topic is carried as data only, no handler branches
\* on it
ClickedTopics == {TOPICS[1], TOPICS[8]}
RandomDraws == {0}

\* what is typed into the chat, with or without an attached file
ChatInputs == {<<"attempt", FALSE>>, <<"help", FALSE>>, <<"help", TRUE>>}
\* the problem-generation provider answers or fails
GenOutcomes == {"ok", "fail"}

----------------------------------------------------------------------------
(* Initial state: the first page load on an empty localStorage.  The startup *)
(* effect has called initializeAdmin, which is suspended on its first hash, *)
(* and getCurrentUser has returned null.                                    *)

Init ==
  /\ dbUsers = <<>>
  /\ dbData = <<>>
  /\ dbCurrentUser = NullUser
  /\ dbLastSession = <<>>
  /\ now = 1
  /\ nGen = 0
  /\ idCounter = 0
  /\ currentUser = NullUser
  /\ appState = "Login"
  /\ currentProblem = NullProblem
  /\ loading = FALSE
  /\ activeMistakes = <<>>
  /\ showAchievements = FALSE
  /\ previousLoginTime = Undefined
  /\ selectedStudent = NullUser
  /\ chat = NoChat
  /\ loginForm = NoForm
  /\ cpForm = NoForm
  /\ pendInit = <<[users |-> <<>>]>>
  /\ pendLogin = <<>>
  /\ pendUpdate = <<>>
  /\ pendReset = <<>>
  /\ pendBatch = <<>>
  /\ pendGen = <<>>
  /\ pendEval = <<>>
  /\ lastCall = NoCall
  /\ pendRender = {}

\* A digest of one short string (crypto.subtle.digest in hashPassword) is
\* resolved before the next input event of the user: clicks, submits and
\* reloads find no initializeAdmin, login, updatePassword or reset call
\* suspended on its hash.  Resumptions of suspended calls, the bulk hashing
\* of an import and the provider's answers interleave freely.
noHashPending ==
  pendInit = <<>> /\ pendLogin = <<>> /\ pendUpdate = <<>> /\ pendReset = <<>>

RemoveAt(seq, k) == SubSeq(seq, 1, k - 1) \o SubSeq(seq, k + 1, Len(seq))

----------------------------------------------------------------------------
(* Page load: App startup effect *)

Reload ==
  LET user == dbCurrentUser
      m == IF user # NullUser
           THEN handleLoginSuccess(InitialMem, user, Undefined, dbData,
                                   dbLastSession)
           ELSE InitialMem
  IN /\ noHashPending
     /\ Commit(Settle([m |-> m, chat |-> NoChat, loginForm |-> NoForm,
                       cpForm |-> NoForm, data |-> dbData,
                       sessions |-> dbLastSession, pendEval |-> <<>>]))
     /\ pendInit' = IF initializeAdminHasChanges(dbUsers)
                    THEN <<[users |-> dbUsers]>> ELSE <<>>
     /\ pendLogin' = <<>>
     /\ pendUpdate' = <<>>
     /\ pendReset' = <<>>
     /\ pendBatch' = <<>>
     /\ pendGen' = <<>>
     /\ lastCall' = NoCall
     /\ UNCHANGED <<dbUsers, dbCurrentUser, now, nGen, idCounter>>
     /\ UNCHANGED pendRender

\* initializeAdmin resumes after its hashes: pushes the missing accounts
\* onto the array it read and saves it
InitResume(k) ==
  /\ k \in 1..Len(pendInit)
  /\ dbUsers' = initializeAdminUsers(pendInit[k].users)
  /\ pendInit' = RemoveAt(pendInit, k)
  /\ lastCall' = Call("initializeAdmin", "", "", "ok", Undefined)
  /\ UNCHANGED <<dbData, dbCurrentUser, dbLastSession, now, nGen, idCounter,
                 appVars, compVars, pendLogin, pendUpdate, pendReset,
                 pendBatch, pendGen, pendEval>>
  /\ UNCHANGED pendRender

----------------------------------------------------------------------------
(* Login.handleSubmit *)

LoginSubmit(username, password) ==
  /\ noHashPending
  /\ appState = "Login"
  /\ ~loginForm.loading
  /\ pendLogin = <<>>
  /\ IF loginIndex(dbUsers, username) = 0
     THEN /\ loginForm' = [error |-> "NotFound", loading |-> FALSE]
          /\ lastCall' = Call("login", username, password, "NotFound",
                              Undefined)
          /\ pendLogin' = pendLogin
     ELSE /\ loginForm' = [error |-> "", loading |-> TRUE]
          /\ pendLogin' = <<[users |-> dbUsers,
                             userIndex |-> loginIndex(dbUsers, username),
                             username |-> username, password |-> password]>>
          /\ lastCall' = NoCall
  /\ UNCHANGED <<storeVars, now, nGen, idCounter, appVars, chat, cpForm, pendInit,
                 pendUpdate, pendReset, pendBatch, pendGen, pendEval>>
  /\ UNCHANGED pendRender

LoginResume ==
  /\ pendLogin # <<>>
  /\ LET p == pendLogin[1]
         r == loginResume(p.users, p.userIndex, p.password, now)
     IN IF r.status = "ok"
        THEN /\ now - 1 - nGen < MaxLogins
             /\ dbUsers' = r.users
             /\ dbCurrentUser' = r.user
             /\ now' = now + 1
             /\ Commit(Settle([World(handleLoginSuccess(Mem, r.user,
                                       r.previousLogin, dbData, dbLastSession))
                               EXCEPT !.loginForm = NoForm]))
             /\ lastCall' = Call("login", p.username, p.password, "ok",
                                 r.previousLogin)
        ELSE /\ loginForm' = IF appState = "Login"
                             THEN [error |-> "InvalidCredential",
                                   loading |-> FALSE]
                             ELSE loginForm
             /\ lastCall' = Call("login", p.username, p.password,
                                 "InvalidCredential", Undefined)
             /\ UNCHANGED <<storeVars, now, appVars, chat, cpForm, pendEval>>
  /\ pendLogin' = <<>>
  /\ UNCHANGED <<nGen, idCounter, pendInit, pendUpdate, pendReset, pendBatch,
                 pendGen>>
  /\ UNCHANGED pendRender

Logout ==
  /\ noHashPending
  /\ appState = "CoachDashboard" \/ studentFlowRendered(Mem)
  /\ dbCurrentUser' = logout(dbCurrentUser, dbLastSession).currentUser
  /\ Commit(Settle([World(handleLogout(Mem)) EXCEPT
                     !.sessions = logout(dbCurrentUser, dbLastSession).sessions]))
  /\ lastCall' = Call("logout", "", "", "ok", Undefined)
  /\ UNCHANGED <<dbUsers, now, nGen, idCounter, pendInit, pendLogin, pendUpdate,
                 pendReset, pendBatch, pendGen>>
  /\ UNCHANGED pendRender

----------------------------------------------------------------------------
(* ChangePassword.handleSubmit, App.handlePasswordChangeSuccess *)

\* handleSubmit without the check of the length of the new password
ChangePasswordSubmit_noLengthCheck(newPass, confirmPass) ==
  /\ noHashPending
  /\ appState = "ChangePassword"
  /\ currentUser # NullUser
  /\ ~cpForm.loading
  /\ pendUpdate = <<>>
  /\ IF newPass # confirmPass
     THEN /\ cpForm' = [error |-> "Mismatch", loading |-> FALSE]
          /\ lastCall' = NoCall
          /\ UNCHANGED pendUpdate
     ELSE IF findIndexById(dbUsers, currentUser.id) = 0
     THEN /\ cpForm' = [error |-> "UpdateFailed", loading |-> FALSE]
          /\ lastCall' = Call("updatePassword", currentUser.id, newPass,
                              "NotFound", Undefined)
          /\ UNCHANGED pendUpdate
     ELSE /\ cpForm' = [cpForm EXCEPT !.loading = TRUE]
          /\ pendUpdate' = <<[users |-> dbUsers,
                              index |-> findIndexById(dbUsers, currentUser.id),
                              userId |-> currentUser.id,
                              newPassword |-> newPass]>>
          /\ lastCall' = NoCall
  /\ UNCHANGED <<storeVars, now, nGen, idCounter, appVars, chat, loginForm, pendInit,
                 pendLogin, pendReset, pendBatch, pendGen, pendEval>>
  /\ UNCHANGED pendRender

ChangePasswordSubmit(newPass, confirmPass) ==
  /\ noHashPending
  /\ appState = "ChangePassword"
  /\ currentUser # NullUser
  /\ ~cpForm.loading
  /\ pendUpdate = <<>>
  /\ IF Len(newPass) < 6
     THEN /\ cpForm' = [error |-> "TooShort", loading |-> FALSE]
          /\ lastCall' = NoCall
          /\ UNCHANGED pendUpdate
     ELSE IF newPass # confirmPass
     THEN /\ cpForm' = [error |-> "Mismatch", loading |-> FALSE]
          /\ lastCall' = NoCall
          /\ UNCHANGED pendUpdate
     ELSE IF findIndexById(dbUsers, currentUser.id) = 0
     THEN /\ cpForm' = [error |-> "UpdateFailed", loading |-> FALSE]
          /\ lastCall' = Call("updatePassword", currentUser.id, newPass,
                              "NotFound", Undefined)
          /\ UNCHANGED pendUpdate
     ELSE /\ cpForm' = [cpForm EXCEPT !.loading = TRUE]
          /\ pendUpdate' = <<[users |-> dbUsers,
                              index |-> findIndexById(dbUsers, currentUser.id),
                              userId |-> currentUser.id,
                              newPassword |-> newPass]>>
          /\ lastCall' = NoCall
  /\ UNCHANGED <<storeVars, now, nGen, idCounter, appVars, chat, loginForm, pendInit,
                 pendLogin, pendReset, pendBatch, pendGen, pendEval>>
  /\ UNCHANGED pendRender

UpdateResume ==
  /\ pendUpdate # <<>>
  /\ LET p == pendUpdate[1]
         users == updatePasswordResume(p.users, p.index, p.newPassword)
         updated == users[p.index]
     IN /\ dbUsers' = users
        /\ dbCurrentUser' = updated
        /\ Commit(Settle([World(handleLoginSuccess(Mem, updated, Undefined,
                                                   dbData, dbLastSession))
                          EXCEPT !.cpForm = NoForm]))
        /\ lastCall' = Call("updatePassword", p.userId, p.newPassword, "ok",
                            Undefined)
  /\ pendUpdate' = <<>>
  /\ UNCHANGED <<now, nGen, idCounter, pendInit, pendLogin, pendReset, pendBatch,
                 pendGen>>
  /\ UNCHANGED pendRender

----------------------------------------------------------------------------
(* Student flow *)

\* handleTopicSelect up to its await
TopicClick(topic, n) ==
  /\ noHashPending
  /\ appState = "TopicSelection"
  /\ studentFlowRendered(Mem)
  /\ ~loading
  /\ pendGen' = <<[topic |-> selectedTopic(topic, n)]>>
  /\ loading' = TRUE
  /\ UNCHANGED <<storeVars, now, nGen, idCounter, currentUser, appState,
                 currentProblem, activeMistakes, showAchievements,
                 previousLoginTime, selectedStudent, compVars, pendInit,
                 pendLogin, pendUpdate, pendReset, pendBatch, pendEval>>
  /\ lastCall' = NoCall
  /\ UNCHANGED pendRender

\* handleTopicSelect after its await: the provider answered or failed
GenResume(outcome) ==
  /\ pendGen # <<>>
  /\ nGen < MaxGen
  /\ Commit(Settle(World([Mem EXCEPT
        !.currentProblem = generateMathProblem(pendGen[1].topic, outcome, now),
        !.appState = "ProblemActive",
        !.loading = FALSE])))
  /\ now' = now + 1
  /\ pendGen' = <<>>
  /\ UNCHANGED <<dbUsers, dbCurrentUser, idCounter, pendInit, pendLogin,
                 pendUpdate, pendReset, pendBatch>>
  /\ lastCall' = NoCall
  /\ nGen' = nGen + 1
  /\ UNCHANGED pendRender

\* the logo of the student header
LogoClick ==
  /\ noHashPending
  /\ studentFlowRendered(Mem)
  /\ Commit(Settle(World([Mem EXCEPT !.appState = "TopicSelection"])))
  /\ lastCall' = NoCall
  /\ UNCHANGED <<dbUsers, dbCurrentUser, now, nGen, idCounter, pendInit, pendLogin,
                 pendUpdate, pendReset, pendBatch, pendGen>>
  /\ UNCHANGED pendRender

NotebookOpen ==
  /\ noHashPending
  /\ appState = "TopicSelection"
  /\ studentFlowRendered(Mem)
  /\ Commit(Settle(World([Mem EXCEPT !.appState = "MistakeNotebook"])))
  /\ lastCall' = NoCall
  /\ UNCHANGED <<dbUsers, dbCurrentUser, now, nGen, idCounter, pendInit, pendLogin,
                 pendUpdate, pendReset, pendBatch, pendGen>>
  /\ UNCHANGED pendRender

NotebookBack ==
  /\ noHashPending
  /\ appState = "MistakeNotebook"
  /\ Commit(Settle(World([Mem EXCEPT !.appState = "TopicSelection"])))
  /\ lastCall' = NoCall
  /\ UNCHANGED <<dbUsers, dbCurrentUser, now, nGen, idCounter, pendInit, pendLogin,
                 pendUpdate, pendReset, pendBatch, pendGen>>
  /\ UNCHANGED pendRender

NotebookSelect(i) ==
  /\ noHashPending
  /\ appState = "MistakeNotebook"
  /\ i \in 1..Len(activeMistakes)
  /\ Commit(Settle(World([Mem EXCEPT !.currentProblem = activeMistakes[i],
                                     !.appState = "ProblemActive"])))
  /\ lastCall' = NoCall
  /\ UNCHANGED <<dbUsers, dbCurrentUser, now, nGen, idCounter, pendInit, pendLogin,
                 pendUpdate, pendReset, pendBatch, pendGen>>
  /\ UNCHANGED pendRender

NotebookDelete(i) ==
  /\ noHashPending
  /\ appState = "MistakeNotebook"
  /\ i \in 1..Len(activeMistakes)
  /\ Commit(Settle(World([Mem EXCEPT !.activeMistakes =
        SelectSeq(@, LAMBDA x : x.id # activeMistakes[i].id)])))
  /\ lastCall' = NoCall
  /\ UNCHANGED <<dbUsers, dbCurrentUser, now, nGen, idCounter, pendInit, pendLogin,
                 pendUpdate, pendReset, pendBatch, pendGen>>
  /\ UNCHANGED pendRender

\* ProblemDisplay onBack; currentUser!.id throws when there is no user
ProblemBack ==
  /\ noHashPending
  /\ chatRendered(Mem)
  /\ currentUser # NullUser
  /\ Commit(Settle([World([Mem EXCEPT !.appState = "TopicSelection",
                                      !.currentProblem = NullProblem])
                    EXCEPT !.sessions = saveLastSession(dbLastSession,
                                          currentUser.id, NullProblem)]))
  /\ lastCall' = NoCall
  /\ UNCHANGED <<dbUsers, dbCurrentUser, now, nGen, idCounter, pendInit, pendLogin,
                 pendUpdate, pendReset, pendBatch, pendGen>>
  /\ UNCHANGED pendRender

\* ProblemDisplay onToggleSave
ToggleSave ==
  /\ noHashPending
  /\ chatRendered(Mem)
  /\ Commit(Settle(World(toggleMistake(Mem, now))))
  /\ lastCall' = NoCall
  /\ UNCHANGED <<dbUsers, dbCurrentUser, now, nGen, idCounter, pendInit, pendLogin,
                 pendUpdate, pendReset, pendBatch, pendGen>>
  /\ UNCHANGED pendRender

CloseAchievements ==
  /\ noHashPending
  /\ showAchievements
  /\ currentUser # NullUser
  /\ studentFlowRendered(Mem)
  /\ Commit(Settle(World([Mem EXCEPT !.showAchievements = FALSE])))
  /\ lastCall' = NoCall
  /\ UNCHANGED <<dbUsers, dbCurrentUser, now, nGen, idCounter, pendInit, pendLogin,
                 pendUpdate, pendReset, pendBatch, pendGen>>
  /\ UNCHANGED pendRender

----------------------------------------------------------------------------
(* ChatInterface.handleSubmit *)

\* up to the await of evaluateSolution
ChatSubmit(inputText, hasAttachment) ==
  /\ noHashPending
  /\ chat.mounted
  /\ ~chat.isProcessing
  /\ Len(chat.messages) + 2 <= MaxChat
  /\ Commit(Settle(
       [World(IF ~hasAttachment /\ hasKeyword(inputText)
              THEN saveCurrentProblem(Mem, now) ELSE Mem)
        EXCEPT !.chat = [chat EXCEPT
                 !.messages = Append(@, [sender |-> "user", text |-> inputText,
                                         attachment |-> hasAttachment]),
                 !.isProcessing = TRUE],
               !.pendEval = <<[key |-> chat.key]>>]))
  /\ lastCall' = NoCall
  /\ UNCHANGED <<dbUsers, dbCurrentUser, now, nGen, idCounter, pendInit, pendLogin,
                 pendUpdate, pendReset, pendBatch, pendGen>>
  /\ UNCHANGED pendRender

\* after the await: the text evaluateSolution returned (the provider's reply,
\* or the apology of its catch branch: the handler does not tell them apart)
\* is appended by the chat that asked, if still mounted
EvalResume ==
  /\ pendEval # <<>>
  /\ Commit(Settle(
       [World(Mem) EXCEPT
          !.chat = [chat EXCEPT
            !.messages = Append(@, [sender |-> "model",
                                    text |-> "reply",
                                    attachment |-> FALSE]),
            !.isProcessing = FALSE],
          !.pendEval = <<>>]))
  /\ lastCall' = NoCall
  /\ UNCHANGED <<dbUsers, dbCurrentUser, now, nGen, idCounter, pendInit, pendLogin,
                 pendUpdate, pendReset, pendBatch, pendGen>>
  /\ UNCHANGED pendRender

----------------------------------------------------------------------------
(* Coach flow: CoachDashboard *)

CoachSelectStudent(i) ==
  /\ noHashPending
  /\ appState = "CoachDashboard"
  /\ i \in 1..Len(getStudents(dbUsers))
  /\ Commit(Settle(World([Mem EXCEPT
        !.selectedStudent = getStudents(dbUsers)[i],
        !.activeMistakes = getUserMistakes(dbData, getStudents(dbUsers)[i].id),
        !.appState = "CoachAnalytics"])))
  /\ lastCall' = NoCall
  /\ UNCHANGED <<dbUsers, dbCurrentUser, now, nGen, idCounter, pendInit, pendLogin,
                 pendUpdate, pendReset, pendBatch, pendGen>>
  /\ UNCHANGED pendRender

CoachBack ==
  /\ noHashPending
  /\ appState = "CoachAnalytics"
  /\ Commit(Settle(World([Mem EXCEPT !.appState = "CoachDashboard"])))
  /\ lastCall' = NoCall
  /\ UNCHANGED <<dbUsers, dbCurrentUser, now, nGen, idCounter, pendInit, pendLogin,
                 pendUpdate, pendReset, pendBatch, pendGen>>
  /\ UNCHANGED pendRender

\* handleResetPassword, confirmed, up to the await of the hash
CoachReset(i) ==
  /\ noHashPending
  /\ appState = "CoachDashboard"
  /\ i \in 1..Len(getStudents(dbUsers))
  /\ pendReset = <<>>
  /\ LET userId == getStudents(dbUsers)[i].id
     IN IF findIndexById(dbUsers, userId) = 0
        THEN /\ lastCall' = Call("resetUserPasswordToUsername", userId, "",
                                 "NotFound", Undefined)
             /\ UNCHANGED pendReset
        ELSE /\ pendReset' = <<[users |-> dbUsers,
                                index |-> findIndexById(dbUsers, userId),
                                userId |-> userId]>>
             /\ lastCall' = NoCall
  /\ UNCHANGED <<storeVars, now, nGen, idCounter, appVars, compVars, pendInit,
                 pendLogin, pendUpdate, pendBatch, pendGen, pendEval>>
  /\ UNCHANGED pendRender

ResetResume ==
  /\ pendReset # <<>>
  /\ dbUsers' = resetResume(pendReset[1].users, pendReset[1].index)
  /\ lastCall' = Call("resetUserPasswordToUsername", pendReset[1].userId,
                      "", "ok", Undefined)
  /\ pendReset' = <<>>
  /\ UNCHANGED <<dbData, dbCurrentUser, dbLastSession, now, nGen, idCounter, appVars,
                 compVars, pendInit, pendLogin, pendUpdate, pendBatch, pendGen,
                 pendEval>>
  /\ UNCHANGED pendRender

\* handleFileUpload at its call of registerBatchUsers, up to the hashes
CoachImport(newUsersRaw) ==
  /\ appState = "CoachDashboard"
  /\ pendBatch = <<>>
  /\ idCounter + Len(newUsersRaw) <= MaxImport
  /\ pendBatch' = <<[currentUsers |-> dbUsers,
                     newUsers |-> mapNewUsers(newUsersRaw, idCounter)]>>
  /\ idCounter' = idCounter + Len(newUsersRaw)
  /\ UNCHANGED <<storeVars, now, nGen, appVars, compVars, pendInit, pendLogin,
                 pendUpdate, pendReset, pendGen, pendEval>>
  /\ lastCall' = NoCall
  /\ UNCHANGED pendRender

BatchResume ==
  /\ pendBatch # <<>>
  /\ dbUsers' = registerBatchResume(pendBatch[1].currentUsers,
                                    pendBatch[1].newUsers)
  /\ lastCall' = Call("registerBatchUsers", "", "", "ok",
                      Len(uniqueNewUsers(pendBatch[1].currentUsers,
                                         pendBatch[1].newUsers)))
  /\ pendBatch' = <<>>
  /\ UNCHANGED <<dbData, dbCurrentUser, dbLastSession, now, nGen, idCounter, appVars,
                 compVars, pendInit, pendLogin, pendUpdate, pendReset, pendGen,
                 pendEval>>
  /\ UNCHANGED pendRender

----------------------------------------------------------------------------
(* The application *)

Next ==
  \/ Reload
  \/ \E k \in 1..MaxBoot : InitResume(k)
  \/ \E c \in Credentials : LoginSubmit(c[1], c[2])
  \/ LoginResume
  \/ Logout
  \/ \E f \in PasswordForms : ChangePasswordSubmit(f[1], f[2])
  \/ UpdateResume
  \/ \E topic \in ClickedTopics, n \in RandomDraws : TopicClick(topic, n)
  \/ \E outcome \in GenOutcomes : GenResume(outcome)
  \/ LogoClick
  \/ NotebookOpen
  \/ NotebookBack
  \/ \E i \in 1..MaxGen : NotebookSelect(i)
  \/ \E i \in 1..MaxGen : NotebookDelete(i)
  \/ ProblemBack
  \/ ToggleSave
  \/ CloseAchievements
  \/ \E c \in ChatInputs : ChatSubmit(c[1], c[2])
  \/ EvalResume
  \/ \E i \in 1..(MaxImport + 1) : CoachSelectStudent(i)
  \/ CoachBack
  \/ \E i \in 1..(MaxImport + 1) : CoachReset(i)
  \/ ResetResume
  \/ \E b \in Batches : CoachImport(b)
  \/ BatchResume

Spec == Init /\ [][Next]_vars

----------------------------------------------------------------------------
(* The authService API driven directly.  The page has been loaded once     *)
(* (Init: the first initializeAdmin is suspended); every call runs to      *)
(* completion before the next one starts, except that initializeAdmin may  *)
(* be invoked again while an invocation is suspended on its hashes.        *)

ApiNewPasswords == {"secret1"}
ApiUserIds == {adminUser.id, testUser.id, "nobody"}
                \cup {newUserId(k) : k \in 1..MaxReg}

apiUnchanged == <<dbData, dbLastSession, nGen, appVars, compVars, pendLogin,
                  pendUpdate, pendReset, pendBatch, pendGen, pendEval>>

ApiInitializeAdmin ==
  /\ Len(pendInit) < MaxBoot
  /\ IF initializeAdminHasChanges(dbUsers)
     THEN /\ pendInit' = Append(pendInit, [users |-> dbUsers])
          /\ lastCall' = NoCall
     ELSE /\ lastCall' = Call("initializeAdmin", "", "", "ok", Undefined)
          /\ UNCHANGED pendInit
  /\ UNCHANGED <<dbUsers, dbCurrentUser, now, idCounter, apiUnchanged>>
  /\ UNCHANGED pendRender

ApiLogin(username, password) ==
  /\ pendInit = <<>>
  /\ LET userIndex == loginIndex(dbUsers, username)
         r == loginResume(dbUsers, userIndex, password, now)
     IN IF userIndex = 0
        THEN /\ lastCall' = Call("login", username, password, "NotFound",
                                 Undefined)
             /\ UNCHANGED <<dbUsers, dbCurrentUser, now>>
        ELSE IF r.status = "ok"
        THEN /\ now - 1 < MaxApiLogins
             /\ dbUsers' = r.users
             /\ dbCurrentUser' = r.user
             /\ now' = now + 1
             /\ lastCall' = Call("login", username, password, "ok",
                                 r.previousLogin)
        ELSE /\ lastCall' = Call("login", username, password,
                                 "InvalidCredential", Undefined)
             /\ UNCHANGED <<dbUsers, dbCurrentUser, now>>
  /\ UNCHANGED <<idCounter, pendInit, apiUnchanged>>
  /\ UNCHANGED pendRender

ApiLogout ==
  /\ pendInit = <<>>
  /\ dbCurrentUser' = logout(dbCurrentUser, dbLastSession).currentUser
  /\ dbLastSession' = logout(dbCurrentUser, dbLastSession).sessions
  /\ lastCall' = Call("logout", "", "", "ok", Undefined)
  /\ UNCHANGED <<dbUsers, dbData, now, nGen, idCounter, appVars, compVars,
                 pendVars>>
  /\ UNCHANGED pendRender

ApiUpdatePassword(userId, newPassword) ==
  /\ pendInit = <<>>
  /\ LET index == findIndexById(dbUsers, userId)
         users == updatePasswordResume(dbUsers, index, newPassword)
     IN IF index = 0
        THEN /\ lastCall' = Call("updatePassword", userId, newPassword,
                                 "NotFound", Undefined)
             /\ UNCHANGED <<dbUsers, dbCurrentUser>>
        ELSE /\ dbUsers' = users
             /\ dbCurrentUser' = users[index]
             /\ lastCall' = Call("updatePassword", userId, newPassword, "ok",
                                 Undefined)
  /\ UNCHANGED <<now, idCounter, pendInit, apiUnchanged>>
  /\ UNCHANGED pendRender

ApiReset(userId) ==
  /\ pendInit = <<>>
  /\ LET index == findIndexById(dbUsers, userId)
     IN IF index = 0
        THEN /\ lastCall' = Call("resetUserPasswordToUsername", userId, "",
                                 "NotFound", Undefined)
             /\ UNCHANGED dbUsers
        ELSE /\ dbUsers' = resetResume(dbUsers, index)
             /\ lastCall' = Call("resetUserPasswordToUsername", userId, "",
                                 "ok", Undefined)
  /\ UNCHANGED <<dbCurrentUser, now, idCounter, pendInit, apiUnchanged>>
  /\ UNCHANGED pendRender

ApiRegisterBatch(newUsersRaw) ==
  /\ pendInit = <<>>
  /\ idCounter + Len(newUsersRaw) <= MaxReg
  /\ LET newUsers == mapNewUsers(newUsersRaw, idCounter)
     IN /\ dbUsers' = registerBatchResume(dbUsers, newUsers)
        /\ lastCall' = Call("registerBatchUsers", "", "", "ok",
                            Len(uniqueNewUsers(dbUsers, newUsers)))
  /\ idCounter' = idCounter + Len(newUsersRaw)
  /\ UNCHANGED <<dbCurrentUser, now, pendInit, apiUnchanged>>
  /\ UNCHANGED pendRender

StoreNext ==
  \/ ApiInitializeAdmin
  \/ \E k \in 1..MaxBoot : InitResume(k)
  \/ \E c \in Credentials : ApiLogin(c[1], c[2])
  \/ ApiLogout
  \/ \E userId \in ApiUserIds, newPassword \in ApiNewPasswords :
       ApiUpdatePassword(userId, newPassword)
  \/ \E userId \in ApiUserIds : ApiReset(userId)
  \/ \E b \in Batches : ApiRegisterBatch(b)

StoreSpec == Init /\ [][StoreNext]_vars

----------------------------------------------------------------------------
(* The data calls of authService driven directly on the store of the loaded *)
(* page: archives and session pointers are written and read for any user    *)
(* id, between logins and logouts.                                          *)

DataUserIds == {testUser.id, newUserId(1)}

freshProblem ==
  [id |-> "1", topic |-> "Limits", content |-> "generated",
   timestamp |-> Undefined, chatHistory |-> <<>>]

\* the problems handed to saveLastSession and saveUserMistakes, by name
ApiProblems ==
  [fresh |-> freshProblem,
   archived |-> [freshProblem EXCEPT
                   !.timestamp = 5,
                   !.chatHistory =
                     <<welcomeMessage,
                       [sender |-> "user", text |-> "help",
                        attachment |-> TRUE]>>],
   other |-> [freshProblem EXCEPT !.id = "2", !.topic = "Series",
                                  !.chatHistory = <<welcomeMessage>>],
   none |-> NullProblem]

ApiArchives ==
  [empty |-> <<>>,
   one |-> <<ApiProblems["archived"]>>,
   two |-> <<ApiProblems["other"], ApiProblems["fresh"]>>]

ApiSaveLastSession(userId, name) ==
  /\ pendInit = <<>>
  /\ dbLastSession' = saveLastSession(dbLastSession, userId, ApiProblems[name])
  /\ lastCall' = Call("saveLastSession", userId, name, "ok", Undefined)
  /\ UNCHANGED <<dbUsers, dbData, dbCurrentUser, now, nGen, idCounter,
                 appVars, compVars, pendVars>>
  /\ UNCHANGED pendRender

ApiSaveUserMistakes(userId, name) ==
  /\ pendInit = <<>>
  /\ dbData' = saveUserMistakes(dbData, userId, ApiArchives[name])
  /\ lastCall' = Call("saveUserMistakes", userId, name, "ok", Undefined)
  /\ UNCHANGED <<dbUsers, dbCurrentUser, dbLastSession, now, nGen, idCounter,
                 appVars, compVars, pendVars>>
  /\ UNCHANGED pendRender

DataNext ==
  \/ \E k \in 1..MaxBoot : InitResume(k)
  \/ \E c \in Credentials : ApiLogin(c[1], c[2])
  \/ ApiLogout
  \/ \E userId \in DataUserIds, name \in DOMAIN ApiProblems :
       ApiSaveLastSession(userId, name)
  \/ \E userId \in DataUserIds, name \in DOMAIN ApiArchives :
       ApiSaveUserMistakes(userId, name)

DataSpec == Init /\ [][DataNext]_vars

----------------------------------------------------------------------------
(* Properties *)

\* C1: the roster never holds two users with the same username: a row of a
\* batch whose username is that of an existing user or of an earlier row of
\* the same batch is dropped by registerBatchUsers.
C1_UsernamesUnique ==
  \A i, j \in 1..Len(dbUsers) :
    i # j => dbUsers[i].username # dbUsers[j].username

C3_FailedLoginChangesNothing ==
  [][lastCall'.op = "login" =>
       LET users == IF pendLogin # <<>> THEN pendLogin[1].users ELSE dbUsers
           userIndex == findIndexByUsername(users, lastCall'.a1)
       IN /\ lastCall'.status = "NotFound" <=> userIndex = 0
          /\ lastCall'.status = "InvalidCredential" <=>
               /\ userIndex > 0
               /\ users[userIndex].passwordHash # hashPassword(lastCall'.a2)
          /\ lastCall'.status # "ok" =>
               UNCHANGED <<dbUsers, dbCurrentUser, currentUser, appState>>
  ]_vars

\* a wrong password was refused at the Login screen of a roster with history
C3_Witness ==
  /\ isCall(lastCall, "login", "InvalidCredential")
  /\ loginForm.error = "InvalidCredential"
  /\ appState = "Login"
  /\ \E i \in 1..Len(dbUsers) : dbUsers[i].loginCount # Undefined

\* C4: after resetUserPasswordToUsername(u.id) has succeeded, a login with
\* u's username as username and as password succeeds and yields a user whose
\* isFirstLogin is true; on an unknown id the call fails and changes nothing.
C4_ResetThenLogin ==
  [][lastCall'.op = "resetUserPasswordToUsername" =>
       IF lastCall'.status = "ok"
       THEN LET u == dbUsers'[findIndexById(dbUsers', lastCall'.a1)]
                r == loginResume(dbUsers', loginIndex(dbUsers', u.username),
                                 u.username, now')
            IN r.status = "ok" /\ r.user.isFirstLogin
       ELSE /\ lastCall'.status = "NotFound"
            /\ findIndexById(dbUsers, lastCall'.a1) = 0
            /\ UNCHANGED <<dbUsers, dbCurrentUser>>
  ]_vars

\* C5: after updatePassword(userId, p) has succeeded, the stored hash of
\* that user is the digest of p and isFirstLogin is false, and a login with
\* the user's username and p succeeds with isFirstLogin false; on an unknown
\* id the call fails and leaves the roster and the session identity alone.
C5_UpdateThenLogin ==
  [][lastCall'.op = "updatePassword" =>
       IF lastCall'.status = "ok"
       THEN LET u == dbUsers'[findIndexById(dbUsers', lastCall'.a1)]
                r == loginResume(dbUsers', loginIndex(dbUsers', u.username),
                                 lastCall'.a2, now')
            IN /\ u.passwordHash = hashPassword(lastCall'.a2)
               /\ ~u.isFirstLogin
               /\ r.status = "ok" /\ ~r.user.isFirstLogin
       ELSE /\ lastCall'.status = "NotFound"
            /\ findIndexById(dbUsers, lastCall'.a1) = 0
            /\ UNCHANGED <<dbUsers, dbCurrentUser>>
  ]_vars

\* C6: while the logged-in user's isFirstLogin is true, the navigation state
\* is ChangePassword.
C6_RotationEnforced ==
  (currentUser # NullUser /\ currentUser.isFirstLogin)
    => appState = "ChangePassword"

\* C7: a user created by registerBatchUsers whose isFirstLogin is still true
\* (no updatePassword has succeeded since the account got the username as
\* password) is never in TopicSelection.
C7_NoTopicSelectionBeforeRotation ==
  (/\ currentUser # NullUser
   /\ currentUser.id \notin {adminUser.id, testUser.id}
   /\ currentUser.isFirstLogin)
    => appState # "TopicSelection"

\* C8: when the login of a user whose isFirstLogin is false succeeds, a
\* coach is in CoachDashboard; a student has as in-memory archive the archive
\* that was persisted for that student and, if a session pointer was
\* persisted for that student, is in ProblemActive with exactly that problem
\* (chatHistory included) as current problem, otherwise in TopicSelection.
C8_LoginRouting ==
  [][(isCall(lastCall', "login", "ok") /\ ~dbCurrentUser'.isFirstLogin) =>
       LET user == dbCurrentUser'
           lastSession == getLastSession(dbLastSession, user.id)
       IN /\ currentUser' = user
          /\ user.role = "coach" => appState' = "CoachDashboard"
          /\ user.role = "student" =>
               /\ activeMistakes' = getUserMistakes(dbData, user.id)
               /\ IF lastSession # NullProblem
                  THEN /\ appState' = "ProblemActive"
                       /\ currentProblem' = lastSession
                  ELSE appState' = "TopicSelection"
  ]_vars

\* a student with an archived problem and a conversation under way has
\* logged in again and is back on that problem
C8_Witness ==
  /\ isCall(lastCall, "login", "ok")
  /\ appState = "ProblemActive"
  /\ Len(currentProblem.chatHistory) > 1
  /\ Len(activeMistakes) > 0
  /\ currentProblem = getLastSession(dbLastSession, currentUser.id)

\* C9: an invocation of initializeAdmin that completes, alone or overlapping
\* another one, leaves every existing user as it was (those named "Coach" or
\* "test" included) and every other key of the storage untouched; afterwards
\* exactly one user is named "Coach" and exactly one "test", and one more
\* invocation would change nothing.
C9_BootstrapIdempotent ==
  [][isCall(lastCall', "initializeAdmin", "ok") =>
       /\ Len(dbUsers') >= Len(dbUsers)
       /\ \A i \in 1..Len(dbUsers) : dbUsers'[i] = dbUsers[i]
       /\ Cardinality({i \in 1..Len(dbUsers') :
                         dbUsers'[i].username = "Coach"}) = 1
       /\ Cardinality({i \in 1..Len(dbUsers') :
                         dbUsers'[i].username = "test"}) = 1
       /\ initializeAdminUsers(dbUsers') = dbUsers'
       /\ UNCHANGED <<dbData, dbCurrentUser, dbLastSession>>
  ]_vars

\* initializeAdmin has run on a roster with an imported user, on which
\* "Coach" has logged in and "test" has another password
C9_Witness ==
  /\ isCall(lastCall, "initializeAdmin", "ok")
  /\ Len(dbUsers) > 2
  /\ dbUsers[1].loginCount # Undefined
  /\ dbUsers[2].passwordHash # hashPassword("test")

\* C10: initializeAdmin completing on an empty store leaves exactly the
\* coach "Coach" and the student "test", both with isFirstLogin false; on
\* that store a login of "test" with password "test" succeeds and leaves the
\* student in TopicSelection with an empty archive in memory and persisted.
C10_FreshStoreTestLogin ==
  [][/\ (isCall(lastCall', "initializeAdmin", "ok") /\ dbUsers = <<>>) =>
          /\ Len(dbUsers') = 2
          /\ dbUsers'[1].username = "Coach" /\ dbUsers'[1].role = "coach"
          /\ dbUsers'[2].username = "test" /\ dbUsers'[2].role = "student"
          /\ ~dbUsers'[1].isFirstLogin /\ ~dbUsers'[2].isFirstLogin
     /\ (/\ lastCall'.op = "login"
         /\ lastCall'.a1 = "test" /\ lastCall'.a2 = "test"
         /\ dbUsers = initializeAdminUsers(<<>>)
         /\ dbData = <<>>
         /\ DOMAIN dbLastSession = {}) =>
          /\ lastCall'.status = "ok"
          /\ currentUser'.username = "test"
          /\ appState' = "TopicSelection"
          /\ activeMistakes' = <<>>
          /\ getUserMistakes(dbData', currentUser'.id) = <<>>
  ]_vars

\* "test" is logged in on the store the bootstrap created
C10_Witness ==
  /\ isCall(lastCall, "login", "ok")
  /\ lastCall.a1 = "test"
  /\ Len(dbUsers) = 2
  /\ dbUsers[1] = adminUser
  /\ dbUsers[2].loginCount = 1
  /\ appState = "TopicSelection"
  /\ dbData = <<[userId |-> testUser.id, mistakes |-> <<>>]>>

C12_LoggedOutStaysLogin ==
  currentUser = NullUser =>
    /\ appState = "Login"
    /\ activeMistakes = <<>>
    /\ selectedStudent = NullUser
    /\ currentProblem = NullProblem
    /\ ~showAchievements

\* C13: after saveLastSession(u, P), getLastSession(u) returns a problem
\* equal to P, chatHistory included, and absent when P is absent; the pointer
\* of every other user, the roster, the session identity and the archives
\* are as before.
C13_SessionPointerRoundTrip ==
  [][isCall(lastCall', "saveLastSession", "ok") =>
       /\ getLastSession(dbLastSession', lastCall'.a1)
            = ApiProblems[lastCall'.a2]
       /\ lastCall'.a2 = "none" => lastCall'.a1 \notin DOMAIN dbLastSession'
       /\ \A v \in (DOMAIN dbLastSession \cup DOMAIN dbLastSession')
                    \ {lastCall'.a1} :
            /\ v \in DOMAIN dbLastSession /\ v \in DOMAIN dbLastSession'
            /\ dbLastSession'[v] = dbLastSession[v]
       /\ UNCHANGED <<dbUsers, dbCurrentUser, dbData>>
  ]_vars

\* a problem with timestamp and conversation was saved as pointer of a
\* logged-in user while another user has a pointer
C13_Witness ==
  /\ isCall(lastCall, "saveLastSession", "ok")
  /\ lastCall.a2 = "archived"
  /\ dbCurrentUser.id = lastCall.a1
  /\ Cardinality(DOMAIN dbLastSession) = 2

\* C14: after saveUserMistakes(u, ps), getUserMistakes(u) is ps in the same
\* order, the archive of every other user is as before, the data store has
\* at most one record per userId, and the roster, the session identity and
\* the session pointers are unchanged; a user without a record has the
\* empty archive.
C14_SaveMistakesReplaces ==
  [][isCall(lastCall', "saveUserMistakes", "ok") =>
       /\ getUserMistakes(dbData', lastCall'.a1) = ApiArchives[lastCall'.a2]
       /\ \A v \in DataUserIds \ {lastCall'.a1} :
            /\ getUserMistakes(dbData', v) = getUserMistakes(dbData, v)
            /\ findIndexByUserId(dbData', v) = findIndexByUserId(dbData, v)
       /\ \A i, j \in 1..Len(dbData') :
            i # j => dbData'[i].userId # dbData'[j].userId
       /\ \A v \in DataUserIds :
            findIndexByUserId(dbData', v) = 0 => getUserMistakes(dbData', v) = <<>>
       /\ UNCHANGED <<dbUsers, dbCurrentUser, dbLastSession>>
  ]_vars

\* the archive of a user was replaced by the empty one (its problems removed)
\* while another user keeps an archive of two problems
C14_Witness ==
  /\ isCall(lastCall, "saveUserMistakes", "ok")
  /\ lastCall.a2 = "empty"
  /\ Len(dbData) = 2
  /\ \E v \in DataUserIds \ {lastCall.a1} : Len(getUserMistakes(dbData, v)) = 2
  /\ findIndexByUserId(dbData, lastCall.a1) = 1

----------------------------------------------------------------------------
(* The student flow on a store an earlier visit has written.  In that      *)
(* visit (at the times before this page load, 0 in the model) 'test'       *)
(* logged in, had a problem generated, archived it, went back to the       *)
(* topics and logged out: the roster holds the login, the data store the   *)
(* archive with the problem as the chat's first report left it, and no     *)
(* session pointer is stored.  initializeAdmin finds both accounts and     *)
(* does not suspend.                                                       *)

earlierUsers ==
  loginResume(initializeAdminUsers(<<>>),
              loginIndex(initializeAdminUsers(<<>>), testUser.username),
              "test", 0).users

earlierProblem ==
  [generateMathProblem(TOPICS[2], "ok", 0) EXCEPT
     !.chatHistory = <<welcomeMessage>>]

ArchiveInit ==
  /\ dbUsers = earlierUsers
  /\ dbData = saveUserMistakes(<<>>, testUser.id, <<earlierProblem>>)
  /\ dbCurrentUser = NullUser
  /\ dbLastSession = <<>>
  /\ now = 1
  /\ nGen = 0
  /\ idCounter = 0
  /\ currentUser = NullUser
  /\ appState = "Login"
  /\ currentProblem = NullProblem
  /\ loading = FALSE
  /\ activeMistakes = <<>>
  /\ showAchievements = FALSE
  /\ previousLoginTime = Undefined
  /\ selectedStudent = NullUser
  /\ chat = NoChat
  /\ loginForm = NoForm
  /\ cpForm = NoForm
  /\ pendInit = <<>>
  /\ pendLogin = <<>>
  /\ pendUpdate = <<>>
  /\ pendReset = <<>>
  /\ pendBatch = <<>>
  /\ pendGen = <<>>
  /\ pendEval = <<>>
  /\ lastCall = NoCall
  /\ pendRender = {}

\* what the student types into Login: the password of 'test' or another
StudentCredentials == {<<"test", "test">>, <<"test", "secret1">>}

ArchiveNext ==
  \/ Reload
  \/ \E c \in StudentCredentials : LoginSubmit(c[1], c[2])
  \/ LoginResume
  \/ Logout
  \/ \E topic \in ClickedTopics, n \in RandomDraws : TopicClick(topic, n)
  \/ \E outcome \in GenOutcomes : GenResume(outcome)
  \/ LogoClick
  \/ NotebookOpen
  \/ NotebookBack
  \/ \E i \in 1..(MaxGen + 1) : NotebookSelect(i)
  \/ \E i \in 1..(MaxGen + 1) : NotebookDelete(i)
  \/ ProblemBack
  \/ ToggleSave
  \/ CloseAchievements
  \/ \E c \in ChatInputs : ChatSubmit(c[1], c[2])
  \/ EvalResume

ArchiveSpec == ArchiveInit /\ [][ArchiveNext]_vars

----------------------------------------------------------------------------
(* The student flow with the random-choice button only, over every value   *)
(* of the draw.                                                            *)

AllDraws == 0..(RandomGrain - 1)

TopicNext ==
  \/ \E k \in 1..MaxBoot : InitResume(k)
  \/ \E c \in StudentCredentials : LoginSubmit(c[1], c[2])
  \/ LoginResume
  \/ Logout
  \/ \E n \in AllDraws : TopicClick("RandomChallenge", n)
  \/ \E outcome \in GenOutcomes : GenResume(outcome)
  \/ LogoClick
  \/ NotebookOpen
  \/ \E i \in 1..MaxGen : NotebookSelect(i)
  \/ ProblemBack
  \/ ToggleSave
  \/ \E c \in ChatInputs : ChatSubmit(c[1], c[2])
  \/ EvalResume

TopicSpec == Init /\ [][TopicNext]_vars

----------------------------------------------------------------------------
(* Properties of the archive and the session pointer *)

\* C15: a toggle of the archive membership of the active problem changes
\* nothing for a user who is not a student; for a student it puts the active
\* problem, with a timestamp, in front of the archive when no archived
\* problem has its id, and otherwise removes the entry of that id and keeps
\* the others in order; afterwards the persisted archive of the student is
\* the archive in memory.
C15_ToggleArchives ==
  [][ToggleSave =>
       IF ~isStudent(currentUser)
       THEN UNCHANGED <<activeMistakes, dbData>>
       ELSE /\ someId(activeMistakes, currentProblem.id) =>
                 activeMistakes' = SelectSeq(activeMistakes,
                                     LAMBDA x : x.id # currentProblem.id)
            /\ ~someId(activeMistakes, currentProblem.id) =>
                 /\ Len(activeMistakes') = Len(activeMistakes) + 1
                 /\ activeMistakes'[1].id = currentProblem.id
                 /\ activeMistakes'[1].timestamp # Undefined
                 /\ Tail(activeMistakes') = activeMistakes
            /\ getUserMistakes(dbData', currentUser.id) = activeMistakes'
  ]_vars

noDuplicateIds(problems) ==
  \A i, j \in 1..Len(problems) : i # j => problems[i].id # problems[j].id

\* C16: no archive, in memory or persisted, holds two problems of one id,
\* and the data store holds at most one archive record per userId.
C16_ArchiveIdsUnique ==
  /\ noDuplicateIds(activeMistakes)
  /\ \A i \in 1..Len(dbData) : noDuplicateIds(parseProblems(dbData[i].mistakes))
  /\ \A i, j \in 1..Len(dbData) : i # j => dbData[i].userId # dbData[j].userId

\* an archived problem is active and its chat has taken a giving-up keyword:
\* the automatic save has run on a problem the archive holds
C16_Witness ==
  /\ isStudent(currentUser)
  /\ chat.mounted
  /\ \E i \in 1..Len(chat.messages) :
        /\ chat.messages[i].sender = "user"
        /\ hasKeyword(chat.messages[i].text)
        /\ ~chat.messages[i].attachment
  /\ Len(activeMistakes) = 1
  /\ activeMistakes[1].id = currentProblem.id
  /\ getUserMistakes(dbData, currentUser.id) = activeMistakes
  /\ C16_ArchiveIdsUnique

\* C17: whenever a student submits text holding a giving-up keyword on the
\* active problem, the problem is in the archive afterwards, a trigger on a
\* problem the archive holds adds no entry, the navigation state stays
\* ProblemActive and the trigger leaves the current problem as it was (the
\* submitted message apart).
C17_KeywordArchives ==
  [][\A input \in ChatInputs :
       (/\ ChatSubmit(input[1], input[2])
        /\ isStudent(currentUser)
        /\ hasKeyword(input[1]))
       => /\ someId(activeMistakes', currentProblem.id)
          /\ Len(activeMistakes') =
               IF someId(activeMistakes, currentProblem.id)
               THEN Len(activeMistakes) ELSE Len(activeMistakes) + 1
          /\ appState' = "ProblemActive"
          /\ [currentProblem' EXCEPT !.chatHistory = <<>>]
               = [currentProblem EXCEPT !.chatHistory = <<>>]
  ]_vars

C19_ChatReachesArchive ==
  [][/\ chat'.mounted =>
          /\ currentProblem'.chatHistory = chat'.messages
          /\ \A i \in 1..Len(activeMistakes') :
               activeMistakes'[i].id = currentProblem'.id
               => activeMistakes'[i].chatHistory = chat'.messages
          /\ isStudent(currentUser') =>
               getUserMistakes(dbData', currentUser'.id) = activeMistakes'
     /\ (\/ EvalResume
         \/ \E input \in ChatInputs :
              /\ ChatSubmit(input[1], input[2])
              /\ input[2] \/ ~hasKeyword(input[1]))
        => /\ Len(activeMistakes') = Len(activeMistakes)
           /\ \A i \in 1..Len(activeMistakes) :
                /\ activeMistakes'[i].id = activeMistakes[i].id
                /\ activeMistakes[i].id # currentProblem.id
                   => activeMistakes'[i] = activeMistakes[i]
  ]_vars

\* the archive holds the active problem, with the reply the chat received,
\* in front of a problem of another id
C19_Witness ==
  /\ isStudent(currentUser)
  /\ chat.mounted
  /\ Len(chat.messages) = 3
  /\ Len(activeMistakes) = 2
  /\ activeMistakes[1].id = currentProblem.id
  /\ activeMistakes[1].chatHistory = chat.messages
  /\ activeMistakes[2] = earlierProblem
  /\ getUserMistakes(dbData, currentUser.id) = activeMistakes

resolvedTopics == {TOPICS[k] : k \in 1..(Len(TOPICS) - 1)}

\* C20: the random-choice button resolves, for every draw, to one of the
\* seven other entries of the list, each of which some draw yields; the
\* topic of the generated problem, of the session pointers and of the
\* archived copies is the resolved topic, never the random-choice entry.
C20_RandomResolves ==
  [][/\ \A k \in 1..(Len(TOPICS) - 1) :
          \E n \in AllDraws : selectedTopic("RandomChallenge", n) = TOPICS[k]
     /\ \A n \in AllDraws :
          TopicClick("RandomChallenge", n) =>
            /\ pendGen'[1].topic \in resolvedTopics
            /\ pendGen'[1].topic = selectedTopic("RandomChallenge", n)
     /\ \A outcome \in GenOutcomes :
          GenResume(outcome) => currentProblem'.topic = pendGen[1].topic
     /\ currentProblem' # NullProblem => currentProblem'.topic \in resolvedTopics
     /\ \A i \in 1..Len(activeMistakes') :
          activeMistakes'[i].topic \in resolvedTopics
     /\ \A id \in DOMAIN dbLastSession' :
          parseProblem(dbLastSession'[id]).topic \in resolvedTopics
     /\ \A i \in 1..Len(dbData') :
          \A j \in 1..Len(dbData'[i].mistakes) :
            parseProblem(dbData'[i].mistakes[j]).topic \in resolvedTopics
  ]_vars

\* the last of the seven topics is on the current problem, its archived
\* copy, in memory and persisted, and the session pointer
C20_Witness ==
  /\ isStudent(currentUser)
  /\ currentProblem # NullProblem
  /\ currentProblem.topic = TOPICS[Len(TOPICS) - 1]
  /\ Len(activeMistakes) = 1
  /\ activeMistakes[1].topic = currentProblem.topic
  /\ getUserMistakes(dbData, currentUser.id) = activeMistakes
  /\ getLastSession(dbLastSession, currentUser.id).topic = currentProblem.topic

----------------------------------------------------------------------------
(* AchievementModal: what a render computes from its props *)

BadgeIds == {"newbie", "explorer", "scholar", "master", "legend"}

\* the third badge unlocked by exactly five problems
badgeCondition_scholarAtFiveOnly(id, c, l, t) ==
  CASE id = "newbie" -> l >= 1
    [] id = "explorer" -> t >= 3
    [] id = "scholar" -> c = 5
    [] id = "master" -> c >= 20
    [] id = "legend" -> c >= 50

\* BADGES[id].condition(c, l, t)
badgeCondition(id, c, l, t) ==
  CASE id = "newbie" -> l >= 1
    [] id = "explorer" -> t >= 3
    [] id = "scholar" -> c >= 5
    [] id = "master" -> c >= 20
    [] id = "legend" -> c >= 50

\* user.loginCount || 1: undefined and 0 are falsy
modalLoginCount(user) ==
  IF user.loginCount = Undefined \/ user.loginCount = 0 THEN 1
  ELSE user.loginCount

\* new Set(mistakes.map(m => m.topic)).size
uniqueTopics(mistakes) ==
  Cardinality({mistakes[i].topic : i \in 1..Len(mistakes)})

\* numbers that need not be whole, as fractions
ratDiv(a, b) == [num |-> a, den |-> b]
ratTimes(r, k) == [num |-> r.num * k, den |-> r.den]
ratLeq(r, q) == r.num * q.den <= q.num * r.den
ratEq(r, q) == r.num * q.den = q.num * r.den
ratMin(k, r) == IF ratLeq(ratDiv(k, 1), r) THEN ratDiv(k, 1) ELSE r

\* the level counted from 0
level_fromZero(problemCount) == problemCount \div 3

\* Math.floor(problemCount / 3) + 1
level(problemCount) == (problemCount \div 3) + 1

\* Math.min(100, ((problemCount - (level - 1) * 3) / 3) * 100)
progressPercent(problemCount) ==
  ratMin(100, ratTimes(ratDiv(problemCount - (level(problemCount) - 1) * 3, 3),
                       100))

unlockedBadges(user, mistakes) ==
  {id \in BadgeIds :
     badgeCondition(id, Len(mistakes), modalLoginCount(user),
                    uniqueTopics(mistakes))}

----------------------------------------------------------------------------
(* The overlay rendered with the props App can pass: a student with any     *)
(* login count and an archive of any length over one to four topics; a     *)
(* step is a render with other props.                                      *)

MaxCount == 51     \* problems of an archive shown in the overlay
MaxTopics == 4     \* topics of an archive shown in the overlay

ModalLoginCounts == {Undefined, 0, 1, 2}

\* an archive of c problems over the first k topics, the latest in front
modalArchive(c, k) ==
  [i \in 1..c |->
     [generateMathProblem(TOPICS[((c - i) % k) + 1], "ok", c - i) EXCEPT
        !.chatHistory = <<welcomeMessage>>]]

modalProps(c, l, k) ==
  /\ currentUser = [testUser EXCEPT !.loginCount = l]
  /\ activeMistakes = modalArchive(c, k)

ModalInit ==
  /\ \E c \in 0..MaxCount, l \in ModalLoginCounts, k \in 1..MaxTopics :
        modalProps(c, l, k)
  /\ dbUsers = initializeAdminUsers(<<>>)
  /\ dbData = <<>>
  /\ dbCurrentUser = NullUser
  /\ dbLastSession = <<>>
  /\ now = 1
  /\ nGen = 0
  /\ idCounter = 0
  /\ appState = "TopicSelection"
  /\ currentProblem = NullProblem
  /\ loading = FALSE
  /\ showAchievements = TRUE
  /\ previousLoginTime = 0
  /\ selectedStudent = NullUser
  /\ chat = NoChat
  /\ loginForm = NoForm
  /\ cpForm = NoForm
  /\ pendInit = <<>>
  /\ pendLogin = <<>>
  /\ pendUpdate = <<>>
  /\ pendReset = <<>>
  /\ pendBatch = <<>>
  /\ pendGen = <<>>
  /\ pendEval = <<>>
  /\ lastCall = NoCall
  /\ pendRender = {}

\* the overlay is rendered with other props
ModalRender(c, l, k) ==
  /\ showAchievements
  /\ currentUser' = [testUser EXCEPT !.loginCount = l]
  /\ activeMistakes' = modalArchive(c, k)
  /\ UNCHANGED <<storeVars, now, nGen, idCounter, appState, currentProblem,
                 loading, showAchievements, previousLoginTime,
                 selectedStudent, compVars, pendVars, lastCall>>
  /\ UNCHANGED pendRender

ModalNext ==
  \E c \in 0..MaxCount, l \in ModalLoginCounts, k \in 1..MaxTopics :
    ModalRender(c, l, k)

ModalSpec == ModalInit /\ [][ModalNext]_vars

----------------------------------------------------------------------------
(* Properties of the overlay, the archive's owner, failures and reloads *)

C24_ArchiveChangesByOwnerOnly ==
  [][\A i \in 1..Len(dbUsers) :
       getUserMistakes(dbData', dbUsers[i].id)
         # getUserMistakes(dbData, dbUsers[i].id)
       => /\ isStudent(currentUser)
          /\ currentUser' = currentUser
          /\ currentUser.id = dbUsers[i].id
          /\ lastCall' = NoCall
          /\ ~Reload
  ]_vars

\* C25: when the provider fails to generate the problem of a topic chosen
\* in TopicSelection, the navigation state remains TopicSelection and the
\* current problem and the session pointers are unchanged.
C25_GenerationFailureKeepsState ==
  [][(GenResume("fail") /\ appState = "TopicSelection")
       => /\ appState' = "TopicSelection"
          /\ currentProblem' = currentProblem
          /\ dbLastSession' = dbLastSession
  ]_vars

\* C26: the provider's answer to a topic selection that arrives after the
\* user has left TopicSelection (notebook opened, logged out) changes
\* neither the navigation state nor the current problem, the session
\* pointers or the archives; a reply to a conversation is applied only to
\* the mounted chat that asked for it.
C26_LateResponsesNotApplied ==
  [][/\ \A outcome \in GenOutcomes :
          (GenResume(outcome) /\ appState # "TopicSelection")
          => /\ appState' = appState
             /\ currentProblem' = currentProblem
             /\ dbLastSession' = dbLastSession
             /\ dbData' = dbData
             /\ activeMistakes' = activeMistakes
     /\ EvalResume => (chat.mounted /\ pendEval[1].key = chat.key)
  ]_vars

\* C27: whenever a student is logged in and the navigation state is
\* TopicSelection or MistakeNotebook, no session pointer is stored for that
\* student.
C27_PointerOnlyInProblemFlow ==
  (isStudent(currentUser) /\ appState \in {"TopicSelection", "MistakeNotebook"})
  => currentUser.id \notin DOMAIN dbLastSession

\* C28: no operation of the credential store removes a user or changes the
\* id, the username or the role of a user, and the users keep their
\* relative order in the roster.
C28_RosterKept ==
  [][\A i \in 1..Len(dbUsers) :
       LET j == findIndexById(dbUsers', dbUsers[i].id)
       IN /\ j > 0
          /\ dbUsers'[j].username = dbUsers[i].username
          /\ dbUsers'[j].role = dbUsers[i].role
          /\ \A h \in 1..(i - 1) : findIndexById(dbUsers', dbUsers[h].id) < j
  ]_vars

\* the password of a user in the middle of a roster with an imported user
\* has been changed
C28_Witness ==
  /\ isCall(lastCall, "updatePassword", "ok")
  /\ Len(dbUsers) >= 3
  /\ lastCall.a1 = dbUsers[2].id
  /\ dbUsers[2].passwordHash = hashPassword(lastCall.a2)

\* C29: a successful updatePassword(userId, p) makes the updated user the
\* session identity when the session identity is that user, and leaves the
\* session identity as it was when it is another user or none.
C29_SessionRefreshedForSameUser ==
  [][isCall(lastCall', "updatePassword", "ok") =>
       IF dbCurrentUser # NullUser /\ dbCurrentUser.id = lastCall'.a1
       THEN dbCurrentUser' = dbUsers'[findIndexById(dbUsers', lastCall'.a1)]
       ELSE dbCurrentUser' = dbCurrentUser
  ]_vars

\* C30: a reload of a student in ProblemActive resumes ProblemActive with
\* the same user, problem, chatHistory and archive; a reload with no stored
\* session identity ends in Login; a reload changes no loginCount and no
\* lastLogin and does not show the achievement overlay.
C30_ReloadConsistent ==
  [][Reload =>
       /\ (isStudent(currentUser) /\ appState = "ProblemActive"
             /\ currentProblem # NullProblem)
          => /\ appState' = "ProblemActive"
             /\ currentUser'.id = currentUser.id
             /\ currentProblem' = currentProblem
             /\ activeMistakes' = activeMistakes
       /\ dbCurrentUser = NullUser
          => (appState' = "Login" /\ currentUser' = NullUser)
       /\ dbUsers' = dbUsers
       /\ dbCurrentUser' = dbCurrentUser
       /\ ~showAchievements'
  ]_vars

----------------------------------------------------------------------------
\* C31: in every step that starts or ends with a coach as the logged-in
\* user, the persisted archives and the persisted session pointers of all
\* users stay as they were, whatever the coach does.
C31_CoachWritesNothing ==
  [][(\/ (currentUser # NullUser /\ currentUser.role = "coach")
      \/ (currentUser' # NullUser /\ currentUser'.role = "coach"))
     => (dbData' = dbData /\ dbLastSession' = dbLastSession)]_vars

\* a coach views the analytics of a student whose persisted archive holds
\* a problem
C31_Witness ==
  /\ currentUser # NullUser /\ currentUser.role = "coach"
  /\ appState = "CoachAnalytics"
  /\ selectedStudent # NullUser
  /\ activeMistakes # <<>>
  /\ activeMistakes = getUserMistakes(dbData, selectedStudent.id)
  /\ findIndexByUserId(dbData, currentUser.id) = 0

----------------------------------------------------------------------------
(* Password change with a failing update *)

\* ChangePassword.handleSubmit resumes in its catch branch: the promise of
\* updatePassword is rejected at the await of the hash, before users is
\* changed or saved
UpdateFail ==
  /\ pendUpdate # <<>>
  /\ cpForm' = [error |-> "UpdateFailed", loading |-> FALSE]
  /\ lastCall' = Call("updatePassword", pendUpdate[1].userId,
                      pendUpdate[1].newPassword, "HashFailed", Undefined)
  /\ pendUpdate' = <<>>
  /\ UNCHANGED <<storeVars, now, nGen, idCounter, appVars, chat, loginForm,
                 pendInit, pendLogin, pendReset, pendBatch, pendGen, pendEval>>
  /\ UNCHANGED pendRender

\* the accounts, the login and the password change
PasswordNext ==
  \/ Reload
  \/ \E k \in 1..MaxBoot : InitResume(k)
  \/ \E c \in Credentials : LoginSubmit(c[1], c[2])
  \/ LoginResume
  \/ Logout
  \/ \E f \in PasswordForms : ChangePasswordSubmit(f[1], f[2])
  \/ UpdateResume
  \/ UpdateFail
  \/ \E i \in 1..(MaxImport + 1) : CoachReset(i)
  \/ ResetResume
  \/ \E b \in Batches : CoachImport(b)
  \/ BatchResume

PasswordSpec == Init /\ [][PasswordNext]_vars

----------------------------------------------------------------------------
\* C32: a submit in ChangePassword of a new password shorter than 6
\* characters, or of one that differs from its confirmation, shows a
\* validation error, does not call updatePassword, leaves the roster (the
\* stored hash and isFirstLogin) as it was and stays in ChangePassword; a
\* submit whose call of updatePassword fails leaves the roster and the
\* navigation state as they were too.
C32_RejectedPasswordChangesNothing ==
  [][/\ \A f \in PasswordForms :
          (ChangePasswordSubmit(f[1], f[2]) /\ (Len(f[1]) < 6 \/ f[1] # f[2]))
            => /\ cpForm'.error \in {"TooShort", "Mismatch"}
               /\ lastCall' = NoCall
               /\ pendUpdate' = <<>>
               /\ dbUsers' = dbUsers
               /\ dbCurrentUser' = dbCurrentUser
               /\ currentUser' = currentUser
               /\ appState' = "ChangePassword"
     /\ (lastCall'.op = "updatePassword" /\ lastCall'.status # "ok")
            => /\ cpForm'.error = "UpdateFailed"
               /\ pendUpdate' = <<>>
               /\ dbUsers' = dbUsers
               /\ dbCurrentUser' = dbCurrentUser
               /\ currentUser' = currentUser
               /\ appState' = "ChangePassword"
    ]_vars

\* a user who must change the password has just been refused one
C32_Witness ==
  /\ appState = "ChangePassword"
  /\ currentUser # NullUser /\ currentUser.isFirstLogin
  /\ cpForm.error \in {"TooShort", "Mismatch"}
  /\ pendUpdate = <<>>
  /\ dbUsers[findIndexById(dbUsers, currentUser.id)].isFirstLogin

\* the call of updatePassword has failed
C32_UpdateFailedSeen ==
  cpForm.error = "UpdateFailed"

----------------------------------------------------------------------------
\* C33: when a reset of a student's password from the coach dashboard and
\* an import of a batch overlap, each having read the roster before the other
\* one wrote it, the roster holds both effects once both have completed: the
\* student has the reset hash with isFirstLogin = TRUE and every entry of
\* the batch that is no duplicate is on the roster.
C33_NoLostRosterUpdate ==
  [][/\ (BatchResume /\ isCall(lastCall, "resetUserPasswordToUsername", "ok"))
          => LET i == findIndexById(dbUsers', lastCall.a1)
             IN /\ i # 0
                /\ dbUsers'[i].passwordHash = hashPassword(dbUsers'[i].username)
                /\ dbUsers'[i].isFirstLogin
                /\ \A k \in 1..Len(pendBatch[1].newUsers) :
                     someUsername(dbUsers', pendBatch[1].newUsers[k].username)
     /\ (ResetResume /\ isCall(lastCall, "registerBatchUsers", "ok"))
          => LET i == pendReset[1].index
             IN /\ Len(dbUsers') = Len(dbUsers)
                /\ \A k \in 1..Len(dbUsers) : k # i => dbUsers'[k] = dbUsers[k]
                /\ dbUsers'[i].passwordHash = hashPassword(dbUsers'[i].username)
                /\ dbUsers'[i].isFirstLogin
    ]_vars

----------------------------------------------------------------------------
(* The chat over two exchanges *)

MaxLongChat == 5

\* ChatInterface.handleSubmit with a submit ignored while a reply is awaited
\* left out
LongChatSubmit_whileProcessing(inputText, hasAttachment) ==
  /\ noHashPending
  /\ chat.mounted
  /\ Len(chat.messages) + 2 <= MaxLongChat
  /\ Commit(Settle(
       [World(IF ~hasAttachment /\ hasKeyword(inputText)
              THEN saveCurrentProblem(Mem, now) ELSE Mem)
        EXCEPT !.chat = [chat EXCEPT
                 !.messages = Append(@, [sender |-> "user", text |-> inputText,
                                         attachment |-> hasAttachment]),
                 !.isProcessing = TRUE],
               !.pendEval = <<[key |-> chat.key]>>]))
  /\ lastCall' = NoCall
  /\ UNCHANGED <<dbUsers, dbCurrentUser, now, nGen, idCounter, pendInit, pendLogin,
                 pendUpdate, pendReset, pendBatch, pendGen>>
  /\ UNCHANGED pendRender

\* ChatInterface.handleSubmit up to its await, the conversation having room
\* for a second exchange
LongChatSubmit(inputText, hasAttachment) ==
  /\ noHashPending
  /\ chat.mounted
  /\ ~chat.isProcessing
  /\ Len(chat.messages) + 2 <= MaxLongChat
  /\ Commit(Settle(
       [World(IF ~hasAttachment /\ hasKeyword(inputText)
              THEN saveCurrentProblem(Mem, now) ELSE Mem)
        EXCEPT !.chat = [chat EXCEPT
                 !.messages = Append(@, [sender |-> "user", text |-> inputText,
                                         attachment |-> hasAttachment]),
                 !.isProcessing = TRUE],
               !.pendEval = <<[key |-> chat.key]>>]))
  /\ lastCall' = NoCall
  /\ UNCHANGED <<dbUsers, dbCurrentUser, now, nGen, idCounter, pendInit, pendLogin,
                 pendUpdate, pendReset, pendBatch, pendGen>>
  /\ UNCHANGED pendRender

\* a student, one problem, its chat, the ways out of it and back into it
ChatNext ==
  \/ Reload
  \/ \E k \in 1..MaxBoot : InitResume(k)
  \/ \E c \in StudentCredentials : LoginSubmit(c[1], c[2])
  \/ LoginResume
  \/ Logout
  \/ \E topic \in ClickedTopics, n \in RandomDraws : TopicClick(topic, n)
  \/ \E outcome \in GenOutcomes : GenResume(outcome)
  \/ NotebookOpen
  \/ \E i \in 1..MaxGen : NotebookSelect(i)
  \/ ProblemBack
  \/ ToggleSave
  \/ \E c \in ChatInputs : LongChatSubmit(c[1], c[2])
  \/ EvalResume

ChatSpec == Init /\ [][ChatNext]_vars

isPrefix(s, t) == Len(s) <= Len(t) /\ SubSeq(t, 1, Len(s)) = s

\* C34: the chatHistory of the active problem only grows at its end: the
\* list the chat reports is the chatHistory of the current problem and has
\* the list reported before for the same problem as a prefix; a submit
\* appends the user's message and issues the evaluation request in the same
\* step, with no request in flight before it; the reply is appended when the
\* request returns; a request in flight belongs to the mounted chat, which is
\* processing, and there is never more than one.
C34_ChatAppendOnly ==
  [][/\ (/\ currentProblem # NullProblem /\ currentProblem' # NullProblem
         /\ currentProblem'.id = currentProblem.id)
          => isPrefix(currentProblem.chatHistory, currentProblem'.chatHistory)
     /\ (chat.mounted /\ chat'.mounted /\ chat'.key = chat.key)
          => isPrefix(chat.messages, chat'.messages)
     /\ chat'.mounted => currentProblem'.chatHistory = chat'.messages
     /\ \A c \in ChatInputs :
          LongChatSubmit(c[1], c[2])
            => /\ pendEval = <<>>
               /\ Len(pendEval') = 1
               /\ chat'.messages =
                    Append(chat.messages, [sender |-> "user", text |-> c[1],
                                           attachment |-> c[2]])
     /\ EvalResume
          => /\ Len(pendEval) = 1
             /\ pendEval' = <<>>
             /\ chat.messages[Len(chat.messages)].sender = "user"
             /\ Len(chat'.messages) = Len(chat.messages) + 1
             /\ isPrefix(chat.messages, chat'.messages)
             /\ chat'.messages[Len(chat'.messages)].sender = "model"
     /\ pendEval' # <<>>
          => /\ Len(pendEval') = 1
             /\ chat'.mounted /\ chat'.isProcessing
             /\ pendEval'[1].key = chat'.key
    ]_vars

\* a conversation of two exchanges, with two different texts of the student,
\* has been reported and is the chatHistory of the current problem
C34_Witness ==
  /\ chat.mounted
  /\ ~chat.isProcessing
  /\ Len(chat.messages) = MaxLongChat
  /\ currentProblem.chatHistory = chat.messages
  /\ chat.messages[2].text # chat.messages[4].text

----------------------------------------------------------------------------
\* C35: after any sequence of bootstrap, login, logout, updatePassword,
\* resetUserPasswordToUsername and registerBatchUsers, a stored
\* current-session identity equals the roster record of the same id
\* (passwordHash, isFirstLogin, lastLogin and loginCount included).
C35_SessionIdentityUpToDate ==
  dbCurrentUser # NullUser =>
    LET i == findIndexById(dbUsers, dbCurrentUser.id)
    IN i # 0 /\ dbUsers[i] = dbCurrentUser

----------------------------------------------------------------------------
\* C36: in every reachable state the navigation state is Login exactly when
\* nobody is logged in; a coach is in ChangePassword, CoachDashboard or
\* CoachAnalytics only; a student is in ChangePassword, TopicSelection,
\* MistakeNotebook or ProblemActive only; and in ProblemActive a current
\* problem is set.
C36_NavigationMatchesUser ==
  /\ appState = "Login" <=> currentUser = NullUser
  /\ (currentUser # NullUser /\ currentUser.role = "coach")
       => appState \in {"ChangePassword", "CoachDashboard", "CoachAnalytics"}
  /\ isStudent(currentUser)
       => appState \in {"ChangePassword", "TopicSelection", "MistakeNotebook",
                        "ProblemActive"}
  /\ appState = "ProblemActive" => currentProblem # NullProblem

----------------------------------------------------------------------------
\* C37: every problem of an archive, in memory or persisted, carries a
\* timestamp, and a step that keeps a problem in the archive in memory (a
\* chat update among them) keeps its timestamp, whether the problem was
\* archived right after its generation or reopened from the notebook.
C37_ArchiveTimestampsKept ==
  [][/\ \A i \in 1..Len(activeMistakes') :
          activeMistakes'[i].timestamp # Undefined
     /\ \A r \in 1..Len(dbData') :
          \A i \in 1..Len(parseProblems(dbData'[r].mistakes)) :
            parseProblems(dbData'[r].mistakes)[i].timestamp # Undefined
     /\ currentUser' = currentUser =>
          \A i \in 1..Len(activeMistakes), j \in 1..Len(activeMistakes') :
            activeMistakes'[j].id = activeMistakes[i].id
              => activeMistakes'[j].timestamp = activeMistakes[i].timestamp
    ]_vars

----------------------------------------------------------------------------
(* Renders and effects, one pass at a time *)

\* The student 'test' has logged in and clicked a topic, and the provider has
\* answered: handleTopicSelect has set currentProblem, appState and loading,
\* and the render that will mount the chat is scheduled.
RenderInit ==
  /\ dbUsers = earlierUsers
  /\ dbCurrentUser = earlierUsers[loginIndex(earlierUsers, testUser.username)]
  /\ \E archive \in {<<>>, <<earlierProblem>>} :
       /\ activeMistakes = archive
       /\ dbData = saveUserMistakes(<<>>, testUser.id, archive)
  /\ dbLastSession = <<>>
  /\ now = 2
  /\ nGen = 1
  /\ idCounter = 0
  /\ currentUser = dbCurrentUser
  /\ appState = "ProblemActive"
  /\ \E topic \in ClickedTopics, n \in RandomDraws, outcome \in GenOutcomes :
       currentProblem = generateMathProblem(selectedTopic(topic, n), outcome, 1)
  /\ loading = FALSE
  /\ showAchievements = FALSE
  /\ previousLoginTime = Undefined
  /\ selectedStudent = NullUser
  /\ chat = NoChat
  /\ loginForm = NoForm
  /\ cpForm = NoForm
  /\ pendInit = <<>>
  /\ pendLogin = <<>>
  /\ pendUpdate = <<>>
  /\ pendReset = <<>>
  /\ pendBatch = <<>>
  /\ pendGen = <<>>
  /\ pendEval = <<>>
  /\ lastCall = NoCall
  /\ pendRender = {"currentProblem", "appState", "loading"}

\* One pass of React over the scheduled updates: App and its children render
\* with the state as set, the chat is mounted, kept or unmounted, and the
\* effects whose dependencies changed run with the state of this render.
\* The propagate effect of a mounted chat runs in every pass: its messages
\* changed, or App rendered and handed it a new onMessagesUpdate.  What
\* handleChatUpdate sets (currentProblem always, a new object; activeMistakes
\* when the archive holds the id) is scheduled for the next pass.
RenderPass ==
  /\ pendRender # {}
  /\ LET m0 == Mem
         kept == /\ chatRendered(m0) /\ chat.mounted
                 /\ chat.key = m0.currentProblem.id
         chat1 == IF ~chatRendered(m0) THEN NoChat
                  ELSE IF kept THEN chat
                  ELSE [mounted |-> TRUE, key |-> m0.currentProblem.id,
                        messages |-> initialMessages(m0.currentProblem),
                        isProcessing |-> FALSE]
         saveRuns ==
           pendRender \cap {"activeMistakes", "currentUser", "appState"} # {}
         persistRuns ==
           pendRender \cap {"currentProblem", "currentUser", "appState"} # {}
         m1 == IF chat1.mounted THEN handleChatUpdate(m0, chat1.messages)
               ELSE m0
     IN /\ Commit([m |-> m1,
                   chat |-> chat1,
                   loginForm |-> loginForm,
                   cpForm |-> cpForm,
                   data |-> IF saveRuns THEN saveMistakesEffect(m0, dbData)
                            ELSE dbData,
                   sessions |-> IF persistRuns
                                THEN persistSessionEffect(m0, dbLastSession)
                                ELSE dbLastSession,
                   pendEval |-> IF kept THEN pendEval ELSE <<>>])
        /\ pendRender' =
             IF ~chat1.mounted THEN {}
             ELSE IF someId(m0.activeMistakes, m0.currentProblem.id)
                  THEN {"currentProblem", "activeMistakes"}
                  ELSE {"currentProblem"}
  /\ lastCall' = NoCall
  /\ UNCHANGED <<dbUsers, dbCurrentUser, now, nGen, idCounter, pendInit, pendLogin,
                 pendUpdate, pendReset, pendBatch, pendGen>>

\* ChatInterface.handleSubmit up to its await: the handler alone, what it sets
\* is scheduled
RenderChatSubmit(inputText, hasAttachment) ==
  /\ chat.mounted
  /\ ~chat.isProcessing
  /\ Len(chat.messages) + 2 <= MaxChat
  /\ activeMistakes' = IF ~hasAttachment /\ hasKeyword(inputText)
                       THEN saveCurrentProblem(Mem, now).activeMistakes
                       ELSE activeMistakes
  /\ chat' = [chat EXCEPT
                !.messages = Append(@, [sender |-> "user", text |-> inputText,
                                        attachment |-> hasAttachment]),
                !.isProcessing = TRUE]
  /\ pendEval' = <<[key |-> chat.key]>>
  /\ pendRender' = pendRender \cup {"messages", "isProcessing"} \cup
                     IF activeMistakes' # activeMistakes
                     THEN {"activeMistakes"} ELSE {}
  /\ lastCall' = NoCall
  /\ UNCHANGED <<storeVars, now, nGen, idCounter, currentUser, appState,
                 currentProblem, loading, showAchievements, previousLoginTime,
                 selectedStudent, loginForm, cpForm, pendInit, pendLogin,
                 pendUpdate, pendReset, pendBatch, pendGen>>

\* ChatInterface.handleSubmit after its await: the reply is appended
RenderEvalResume ==
  /\ pendEval # <<>>
  /\ chat.mounted
  /\ chat' = [chat EXCEPT
                !.messages = Append(@, [sender |-> "model", text |-> "reply",
                                        attachment |-> FALSE]),
                !.isProcessing = FALSE]
  /\ pendEval' = <<>>
  /\ pendRender' = pendRender \cup {"messages", "isProcessing"}
  /\ lastCall' = NoCall
  /\ UNCHANGED <<storeVars, now, nGen, idCounter, appVars, loginForm, cpForm,
                 pendInit, pendLogin, pendUpdate, pendReset, pendBatch, pendGen>>

\* toggleMistake: the handler alone
RenderToggleSave ==
  /\ chat.mounted
  /\ activeMistakes' = toggleMistake(Mem, now).activeMistakes
  /\ pendRender' = pendRender \cup {"activeMistakes"}
  /\ lastCall' = NoCall
  /\ UNCHANGED <<storeVars, now, nGen, idCounter, currentUser, appState,
                 currentProblem, loading, showAchievements, previousLoginTime,
                 selectedStudent, compVars, pendVars>>

\* handleBackToTopics: the handler alone
RenderProblemBack ==
  /\ chat.mounted
  /\ currentProblem' = NullProblem
  /\ appState' = "TopicSelection"
  /\ dbLastSession' = saveLastSession(dbLastSession, currentUser.id, NullProblem)
  /\ pendRender' = pendRender \cup {"currentProblem", "appState"}
  /\ lastCall' = NoCall
  /\ UNCHANGED <<dbUsers, dbData, dbCurrentUser, now, nGen, idCounter,
                 currentUser, loading, activeMistakes, showAchievements,
                 previousLoginTime, selectedStudent, compVars, pendVars>>

RenderNext ==
  \/ RenderPass
  \/ \E c \in ChatInputs : RenderChatSubmit(c[1], c[2])
  \/ RenderEvalResume
  \/ RenderToggleSave
  \/ RenderProblemBack

\* React runs a scheduled render
RenderSpec == RenderInit /\ [][RenderNext]_vars /\ WF_vars(RenderPass)

\* C38: once the chat has reported its messages and the app has set state
\* in response, the app reaches a state in which no render is scheduled, so
\* that no further state update or storage write happens until the next
\* input or reply.
C38_PropagationSettles ==
  (chat.mounted /\ pendRender # {}) ~> (pendRender = {})

====
